---- MODULE Spec2Model ----
(***************************************************************************)
(* View multiplexing of the fleet shell.                                   *)
(*                                                                         *)
(* Web embedding: ShellApplication (shell.ts) drives createWebBackend,     *)
(* which keeps one iframe per worktree path in the `iframes` map and an    *)
(* eviction order in `iframeLRU`.                                          *)
(* Desktop embedding: ShellViewManager (shellViewManager.ts) keeps one     *)
(* WebContentsView per `${windowId}:${folderPath}` key in `views` and the  *)
(* active folder of each window in `activeViews`.                          *)
(*                                                                         *)
(* A run is in exactly one embedding, chosen at start-up (`mode`).         *)
(***************************************************************************)
EXTENDS Integers, Sequences, FiniteSets, TLC

\* ---------------------------------------------------------------- bounds

\* Worktree paths are 1..NumPaths.
NumPaths == 6

\* The desktop manager has no capacity of its own; the model stops creating
\* views once this many are live (over all windows).
MaxViews == 6

\* Tracked repositories; the worktree paths are dealt out to them in turn, so
\* the first repository has a linked worktree next to its main one.
NumRepos == 5

\* refresh() activations of the worktree service that may be in flight at once.
MaxRefreshes == 2

\* Repositories in one getWorktrees request.
MaxRequest == 2

\* saveSettings calls of the shell that may be in flight at once.
MaxPendingSaves == 2

\* ------------------------------------------------------------- constants

\* const MAX_IFRAMES = 5;
MAX_IFRAMES == 5

\* activeWorktreePath: string | null = null  (also: no entry in activeViews)
NoPath == 0

Paths == 1..NumPaths

\* The worktree paths that hold a character the URL parser percent-encodes in a
\* path (a space, a quote, '<', '>', a back-tick, '{', '}').
EscapedPaths == {2}

\* searchParams.get('folder') === null: the host URL has no folder parameter.
NoFolder == <<>>

\* const folderUri = `vscode-remote://${config.remoteAuthority}${worktreePath}`;
\* searchParams.set / get carry that string unchanged.
FolderUri(p) == <<"vscode-remote", p>>

\* new URL(folderParam).pathname: the path as the parser serialises it. A path
\* of EscapedPaths comes back percent-encoded, a string that is no worktree
\* path; it is written as the negative of the path.
UrlPathname(uri) == IF uri[2] \in EscapedPaths THEN 0 - uri[2] ELSE uri[2]

\* The constructor's reading of ?folder=: nothing without the parameter, the
\* pathname of a vscode-remote URL otherwise (the only folder values the shell
\* writes).
ConstructorActivePath(folderParam) ==
    IF folderParam = NoFolder THEN NoPath ELSE UrlPathname(folderParam)

\* Browser windows of the desktop embedding that exist (_getWindow finds them).
WindowIds == {1, 2}

\* A window id no BrowserWindow has (configuration.windowId ?? -1).
UnknownWindowIds == {-1}

\* The folders window w is asked to show: the first window any of them, the
\* other windows two of them (enough for one hidden and one visible view each).
WindowPaths(w) == IF w = 1 THEN Paths ELSE {1, 2}

Repos == 1..NumRepos

\* repoWorktrees.get(repoUri) ?? []: the paths listed under a repository.
WorktreesOf(repo) == {p \in Paths : ((p - 1) % NumRepos) + 1 = repo}

\* const mainWorktree = worktrees.find(w => !w.isBare): the first path of each list.
\* Only the other entries get an archive button.
Archivable == {p \in Paths : \A repo \in Repos :
                  p \in WorktreesOf(repo) => \E q \in WorktreesOf(repo) : q < p}

VARIABLES
    mode,               \* "web" | "electron": which backend the shell was built with
    iframes,            \* web: Map<string, HTMLIFrameElement>, path -> [hidden, activeView]
    iframeLRU,          \* web: string[], least recently activated first
    activeWorktreePath, \* web: ShellApplication.activeWorktreePath
    hostFolder,         \* web: the folder search parameter of window.location
    emptyState,         \* web: an .empty-state element is in the iframe container
    pendingArchive,     \* web: paths whose backend.removeWorktree is awaited
    views,              \* desktop: Map<key, IManagedView>, <<windowId, path>> -> [visible, activeView]
    activeViews,        \* desktop: Map<number, string>, windowId -> path (NoPath: no entry)
    windows,            \* desktop: ids of the BrowserWindows that exist (_getWindow)
    delivered,          \* desktop: <<windowId, sender>> sent as 'vscode:shellNotification'
                        \*          by the last notifyShell call
    trackedRepoUris,    \* service: GitWorktreeService._trackedRepoUris
    storage,            \* service: the list stored under STORAGE_KEY
    repositories,       \* service: GitWorktreeService._repositories (the result map)
    disk,               \* service: the file system, [dirs, files]
    refreshes,          \* service: the refresh() activations in flight, by slot
    fired,              \* service: onDidChange events of the last step
    observed,           \* service: `repositories` as a listener of the last event read it
    outcome,            \* service: the call that returned in the last step
    creating,           \* service: the createWorktree call in its writes, [done: file
                        \*   operations completed (0: no such call), repoUri, branch]
    request,            \* shell service: the repoUris of the last getWorktrees call
    gitRuns,            \* shell service: how git ended for each of them
    results,            \* shell service: what the last getWorktrees call returned
    settingsFile,       \* shell service: shellSettings.json, [exists, text]
    trackedRepos,       \* shell: ShellApplication.trackedRepos
    lastBrowsePath,     \* shell: ShellApplication.lastBrowsePath
    load,               \* shell: the loadSettings call of _loadInitialSettings, [state, value]
    pendingSaves,       \* shell: the arguments of the saveSettings calls in flight
    history,            \* settings: [written: the argument of the last save that wrote,
                        \*   saveFailed: a write failed]
    notifier,           \* terminal contribution of one workbench view: [isBackground,
                        \*   hasNewOutput, notified, silenceTimer (pending), notificationActive]
    notifyEnabled,      \* terminal.integrated.enableInputNotification
    notifiesSent,       \* notify calls since the view last went from foreground to background
    paste,              \* bracketed-paste variant of the contribution: [bracketedPasteMode,
                        \*   silenceTimer (pending), notificationActive, acknowledged,
                        \*   hasFocus: mainWindow.document.hasFocus()]
    ackPending,         \* the workbench was activated and since then the user typed
                        \*   nothing and no OFF-to-ON transition arrived
    pane,               \* AgentTerminalViewPane: [tabs: ids of _tabs in order, activeTabId,
                        \*   nextTabId, pending: ids whose terminal is being created,
                        \*   terminals: ids whose terminal is not disposed,
                        \*   dom: ids whose elements are attached,
                        \*   shown: ids whose content container is attached and displayed]
    created,            \* views (paths / keys) the last handler created
    destroyed,          \* views (paths / keys) the last handler destroyed
    backendCalled,      \* web: the last ShellApplication handler called the view backend
    recency,            \* web: the live paths, least recently activated first (history)
    lastOp              \* the handler that ran last

vars == <<mode, iframes, iframeLRU, activeWorktreePath, hostFolder, emptyState,
          pendingArchive, views, activeViews, windows, delivered,
          trackedRepoUris, storage, repositories, disk, refreshes, fired, observed,
          outcome, creating, request, gitRuns, results,
          settingsFile, trackedRepos, lastBrowsePath, load, pendingSaves, history,
          notifier, notifyEnabled, notifiesSent, paste, ackPending, pane,
          created, destroyed, backendCalled, recency, lastOp>>

webVars == <<iframes, iframeLRU, activeWorktreePath, hostFolder, emptyState,
             pendingArchive, backendCalled, recency>>

desktopVars == <<views, activeViews>>

relayVars == <<windows, delivered>>

gitVars == <<trackedRepoUris, storage, repositories, disk, refreshes, fired,
             observed, outcome>>

viewVars == <<mode, webVars, desktopVars, relayVars, created, destroyed>>

listVars == <<request, gitRuns, results>>

settingsVars == <<settingsFile, trackedRepos, lastBrowsePath, load, pendingSaves, history>>

termVars == <<notifier, notifyEnabled, notifiesSent>>

stepVars == <<creating, paste, ackPending, pane>>

svcVars == <<listVars, settingsVars, termVars, stepVars>>

\* ------------------------------------------------------------- helpers

Restrict(f, S) == [x \in S |-> f[x]]

\* Array.prototype.indexOf + splice(idx, 1): drop the first occurrence of p.
RECURSIVE SpliceOut(_, _)
SpliceOut(lru, p) ==
    IF lru = <<>> THEN <<>>
    ELSE IF Head(lru) = p THEN Tail(lru)
    ELSE <<Head(lru)>> \o SpliceOut(Tail(lru), p)

SeqToSet(s) == {s[i] : i \in 1..Len(s)}

\* History of activations: p was just activated; only live views are kept.
Activated(order, live, p) ==
    SelectSeq(SpliceOut(order, p) \o <<p>>, LAMBDA q : q \in live)

StillLive(order, live) == SelectSeq(order, LAMBDA q : q \in live)

\* ------------------------------------------------- agent pane tabs

\* Tab ids the bounded counter _nextTabId hands out.
MaxTabId == 4

TabIds == 0..(MaxTabId - 1)

\* _activeTabId: string | undefined
NoTab == -1

\* this._tabs.findIndex(t => t.id === tabId), 1-based; 0 when absent.
IndexOfTab(tabs, tabId) ==
    IF \E i \in 1..Len(tabs) : tabs[i] = tabId
    THEN CHOOSE i \in 1..Len(tabs) :
            tabs[i] = tabId /\ \A j \in 1..(i - 1) : tabs[j] # tabId
    ELSE 0

\* this._tabs.splice(idx, 1) with a 1-based idx; past the end it removes nothing.
SpliceAt(tabs, idx) ==
    IF idx \in 1..Len(tabs)
    THEN SubSeq(tabs, 1, idx - 1) \o SubSeq(tabs, idx + 1, Len(tabs))
    ELSE tabs

\* _activateTab(tabId): sets _activeTabId; every tab of the list is displayed
\* iff it is tabId.
ActivateTabState(p, tabId) ==
    [p EXCEPT !.activeTabId = tabId,
              !.shown = (@ \ SeqToSet(p.tabs)) \cup ({tabId} \cap SeqToSet(p.tabs))]

\* if (this._activeTabId === tabId && this._tabs.length > 0)
\*     this._activateTab(this._tabs[Math.min(idx, this._tabs.length - 1)].id)
ActivateNeighbor(p, tabId, idx) ==
    IF p.activeTabId = tabId /\ Len(p.tabs) > 0
    THEN ActivateTabState(p, p.tabs[IF idx < Len(p.tabs) THEN idx ELSE Len(p.tabs)])
    ELSE p

\* _removeTabFromList(tabId)
RemoveTabFromListState(p, tabId) ==
    LET idx == IndexOfTab(p.tabs, tabId) IN
    IF idx = 0 THEN p
    ELSE ActivateNeighbor([p EXCEPT !.dom = @ \ {tabId},
                                    !.shown = @ \ {tabId},
                                    !.tabs = SpliceAt(@, idx)], tabId, idx)

\* _closeTab(tabId): idx is found once, before the terminal is disposed.
CloseTabState(p, tabId, sync) ==
    LET idx == IndexOfTab(p.tabs, tabId) IN
    IF idx = 0 THEN p
    ELSE LET disposedTerminal == [p EXCEPT !.terminals = @ \ {tabId}]
             afterDispose == IF sync
                             THEN RemoveTabFromListState(disposedTerminal, tabId)
                             ELSE disposedTerminal
         IN ActivateNeighbor([afterDispose EXCEPT !.dom = @ \ {tabId},
                                                  !.shown = @ \ {tabId},
                                                  !.tabs = SpliceAt(@, idx)], tabId, idx)

\* ------------------------------------------------- web backend (shell.ts)

\* Mutant: switching away removes the shown iframe instead of hiding it.
RemoveShownIframes(ifr) ==
    LET kept == {q \in DOMAIN ifr : ifr[q].hidden} IN [q \in kept |-> ifr[q]]

\* for (const iframe of iframes.values()) iframe.classList.add('hidden');
HideAllIframes(ifr) == [q \in DOMAIN ifr |-> [ifr[q] EXCEPT !.hidden = TRUE]]

\* Mutant: the reused path keeps its old place in iframeLRU.
ShowExistingKeepOrder(ifr, lru, p) ==
    [iframes   |-> [ifr EXCEPT ![p].hidden = FALSE],
     iframeLRU |-> lru,
     created   |-> {},
     destroyed |-> {}]

\* iframe.classList.remove('hidden'); move worktreePath to the end of iframeLRU.
ShowExistingIframe(ifr, lru, p) ==
    [iframes   |-> [ifr EXCEPT ![p].hidden = FALSE],
     iframeLRU |-> SpliceOut(lru, p) \o <<p>>,
     created   |-> {},
     destroyed |-> {}]

\* Mutant: evicts only above capacity (> instead of >=).
RECURSIVE EvictAboveCapacity(_, _, _)
EvictAboveCapacity(ifr, lru, gone) ==
    IF Cardinality(DOMAIN ifr) > MAX_IFRAMES /\ Len(lru) > 0
    THEN LET evictPath == Head(lru) IN
         IF evictPath \in DOMAIN ifr
         THEN EvictAboveCapacity(Restrict(ifr, DOMAIN ifr \ {evictPath}), Tail(lru),
                                 gone \cup {evictPath})
         ELSE EvictAboveCapacity(ifr, Tail(lru), gone)
    ELSE [iframes |-> ifr, iframeLRU |-> lru, destroyed |-> gone]

\* Mutant: evicts from the most recently used end (pop instead of shift).
RECURSIVE EvictNewest(_, _, _)
EvictNewest(ifr, lru, gone) ==
    IF Cardinality(DOMAIN ifr) >= MAX_IFRAMES /\ Len(lru) > 0
    THEN LET evictPath == lru[Len(lru)]
             rest == SubSeq(lru, 1, Len(lru) - 1) IN
         IF evictPath \in DOMAIN ifr
         THEN EvictNewest(Restrict(ifr, DOMAIN ifr \ {evictPath}), rest,
                          gone \cup {evictPath})
         ELSE EvictNewest(ifr, rest, gone)
    ELSE [iframes |-> ifr, iframeLRU |-> lru, destroyed |-> gone]

\* while (iframes.size >= MAX_IFRAMES && iframeLRU.length > 0) { shift, remove, delete }
RECURSIVE EvictAtCapacity(_, _, _)
EvictAtCapacity(ifr, lru, gone) ==
    IF Cardinality(DOMAIN ifr) >= MAX_IFRAMES /\ Len(lru) > 0
    THEN LET evictPath == Head(lru) IN
         IF evictPath \in DOMAIN ifr
         THEN EvictAtCapacity(Restrict(ifr, DOMAIN ifr \ {evictPath}), Tail(lru),
                              gone \cup {evictPath})
         ELSE EvictAtCapacity(ifr, Tail(lru), gone)
    ELSE [iframes |-> ifr, iframeLRU |-> lru, destroyed |-> gone]

\* document.createElement('iframe'); iframes.set(worktreePath, iframe); iframeLRU.push
\* A new iframe carries no 'hidden' class and has received no message.
CreateIframe(ifr, lru, p) ==
    LET e == EvictAtCapacity(ifr, lru, {}) IN
    [iframes   |-> [q \in DOMAIN e.iframes \cup {p} |->
                      IF q = p THEN [hidden |-> FALSE, activeView |-> "none"]
                      ELSE e.iframes[q]],
     iframeLRU |-> e.iframeLRU \o <<p>>,
     created   |-> {p},
     destroyed |-> e.destroyed]

\* createWebBackend(...).switchToWorktree(worktreePath), without the URL update.
WebSwitchToWorktree(ifr, lru, p) ==
    LET hid == HideAllIframes(ifr) IN
    IF p \in DOMAIN hid THEN ShowExistingIframe(hid, lru, p)
    ELSE CreateIframe(hid, lru, p)

\* Mutant: the path stays in iframeLRU.
RemovedStaysInOrder(ifr, lru, p) ==
    [iframes   |-> Restrict(ifr, DOMAIN ifr \ {p}),
     iframeLRU |-> lru,
     destroyed |-> {p} \cap DOMAIN ifr]

\* createWebBackend(...).onWorktreeRemoved(worktreePath)
WebOnWorktreeRemoved(ifr, lru, p) ==
    IF p \in DOMAIN ifr
    THEN [iframes   |-> Restrict(ifr, DOMAIN ifr \ {p}),
          iframeLRU |-> SpliceOut(lru, p),
          destroyed |-> {p}]
    ELSE [iframes |-> ifr, iframeLRU |-> lru, destroyed |-> {}]

\* for (const wt of worktrees) this.backend.onWorktreeRemoved(wt.path);
RECURSIVE RemoveAll(_, _, _, _)
RemoveAll(ifr, lru, wts, gone) ==
    IF wts = {} THEN [iframes |-> ifr, iframeLRU |-> lru, destroyed |-> gone]
    ELSE LET wt == CHOOSE x \in wts : \A y \in wts : x <= y
             r  == WebOnWorktreeRemoved(ifr, lru, wt)
         IN RemoveAll(r.iframes, r.iframeLRU, wts \ {wt}, gone \cup r.destroyed)

\* ShellApplication._showEmptyState: added only when the container holds no iframe.
ShowEmptyState(ifr, es) == es \/ DOMAIN ifr = {}

\* The iframes that do not carry the 'hidden' class.
VisibleIframes == {q \in DOMAIN iframes : ~iframes[q].hidden}

\* ---------------------------------------- ShellApplication (shell.ts), web

\* Mutant: the early return is missing.
NeverActiveWorktree(active, p) == FALSE

\* if (this.activeWorktreePath === worktreePath) return;
IsActiveWorktree(active, p) == active = p

\* ShellApplication.switchToWorktree(worktreePath): a click on a worktree item,
\* a 'shell.switchWorktree' message of an embedded workbench, or a new worktree.
SwitchToWorktree(p) ==
    /\ mode = "web"
    /\ lastOp' = "switchToWorktree"
    /\ IF IsActiveWorktree(activeWorktreePath, p)
       THEN /\ created' = {}
            /\ destroyed' = {}
            /\ backendCalled' = FALSE
            /\ UNCHANGED <<iframes, iframeLRU, activeWorktreePath, hostFolder,
                           emptyState, recency>>
       ELSE LET r == WebSwitchToWorktree(iframes, iframeLRU, p) IN
            /\ activeWorktreePath' = p
            /\ emptyState' = FALSE
            /\ iframes' = r.iframes
            /\ iframeLRU' = r.iframeLRU
            /\ hostFolder' = FolderUri(p)
            /\ created' = r.created
            /\ destroyed' = r.destroyed
            /\ backendCalled' = TRUE
            /\ recency' = Activated(recency, DOMAIN r.iframes, p)
    /\ UNCHANGED <<mode, pendingArchive, views, activeViews>>
    /\ UNCHANGED <<relayVars, gitVars, svcVars>>

\* ShellApplication._archiveWorktree up to `await this.backend.removeWorktree(...)`:
\* the user confirmed, the request is in flight.
ArchiveWorktreeStart(p) ==
    /\ mode = "web"
    /\ lastOp' = "archiveWorktree"
    /\ p \notin pendingArchive
    /\ pendingArchive' = pendingArchive \cup {p}
    /\ created' = {}
    /\ destroyed' = {}
    /\ backendCalled' = FALSE
    /\ UNCHANGED <<mode, iframes, iframeLRU, activeWorktreePath, hostFolder,
                   emptyState, views, activeViews, recency>>
    /\ UNCHANGED <<relayVars, gitVars, svcVars>>

\* Mutant: the clean-up forgets `this.activeWorktreePath = null`.
ArchiveCleanupKeepsActive(ifr, lru, active, folder, es, p) ==
    IF active = p
    THEN LET r == WebOnWorktreeRemoved(ifr, lru, p) IN
         [iframes |-> r.iframes, iframeLRU |-> r.iframeLRU, destroyed |-> r.destroyed,
          activeWorktreePath |-> active, hostFolder |-> NoFolder,
          emptyState |-> ShowEmptyState(r.iframes, es), backendCalled |-> TRUE]
    ELSE [iframes |-> ifr, iframeLRU |-> lru, destroyed |-> {},
          activeWorktreePath |-> active, hostFolder |-> folder,
          emptyState |-> es, backendCalled |-> FALSE]

\* The view clean-up of _archiveWorktree after a successful removeWorktree:
\* if (this.activeWorktreePath === wt.path) { onWorktreeRemoved; null; URL; empty state }
ArchiveCleanup(ifr, lru, active, folder, es, p) ==
    IF active = p
    THEN LET r == WebOnWorktreeRemoved(ifr, lru, p) IN
         [iframes |-> r.iframes, iframeLRU |-> r.iframeLRU, destroyed |-> r.destroyed,
          activeWorktreePath |-> NoPath, hostFolder |-> NoFolder,
          emptyState |-> ShowEmptyState(r.iframes, es), backendCalled |-> TRUE]
    ELSE [iframes |-> ifr, iframeLRU |-> lru, destroyed |-> {},
          activeWorktreePath |-> active, hostFolder |-> folder,
          emptyState |-> es, backendCalled |-> FALSE]

\* ShellApplication._archiveWorktree from the resolution of removeWorktree on:
\* success is result.success; a failed or throwing request only alerts.
ArchiveWorktreeDone(p, success) ==
    /\ mode = "web"
    /\ lastOp' = IF success THEN "archiveWorktreeDone" ELSE "archiveWorktreeFailed"
    /\ p \in pendingArchive
    /\ pendingArchive' = pendingArchive \ {p}
    /\ LET r == IF success
                THEN ArchiveCleanup(iframes, iframeLRU, activeWorktreePath,
                                    hostFolder, emptyState, p)
                ELSE [iframes |-> iframes, iframeLRU |-> iframeLRU, destroyed |-> {},
                      activeWorktreePath |-> activeWorktreePath,
                      hostFolder |-> hostFolder, emptyState |-> emptyState,
                      backendCalled |-> FALSE]
       IN /\ iframes' = r.iframes
          /\ iframeLRU' = r.iframeLRU
          /\ activeWorktreePath' = r.activeWorktreePath
          /\ hostFolder' = r.hostFolder
          /\ emptyState' = r.emptyState
          /\ destroyed' = r.destroyed
          /\ backendCalled' = r.backendCalled
          /\ recency' = StillLive(recency, DOMAIN r.iframes)
    /\ created' = {}
    /\ UNCHANGED <<mode, views, activeViews>>
    /\ UNCHANGED <<relayVars, gitVars, svcVars>>

\* ShellApplication._removeRepository(repoUri)
RemoveRepository(repo) ==
    /\ mode = "web"
    /\ lastOp' = "removeRepository"
    /\ LET wts == WorktreesOf(repo)
           r == RemoveAll(iframes, iframeLRU, wts, {})
           activeRemoved == activeWorktreePath \in wts
       IN /\ iframes' = r.iframes
          /\ iframeLRU' = r.iframeLRU
          /\ destroyed' = r.destroyed
          /\ activeWorktreePath' = IF activeRemoved THEN NoPath ELSE activeWorktreePath
          /\ hostFolder' = IF activeRemoved THEN NoFolder ELSE hostFolder
          /\ emptyState' = IF activeRemoved THEN ShowEmptyState(r.iframes, emptyState)
                           ELSE emptyState
          /\ backendCalled' = (wts # {})
          /\ recency' = StillLive(recency, DOMAIN r.iframes)
    /\ created' = {}
    /\ UNCHANGED <<mode, pendingArchive, views, activeViews>>
    /\ UNCHANGED <<relayVars, gitVars, svcVars>>

\* refreshWorktrees: this.repoWorktrees.set(result.repoUri, result.worktrees).
\* What repoWorktrees holds for a repository after the last refresh: its
\* worktrees, or nothing when git failed for it (worktrees: [], error).
ListedWorktrees(repo) == {WorktreesOf(repo), {}}

\* ShellApplication._removeRepository(repoUri) when repoWorktrees.get(repoUri)
\* is `listed`: the loop calls backend.onWorktreeRemoved for the listed paths.
RemoveListedRepository(repo, listed) ==
    /\ mode = "web"
    /\ lastOp' = "removeListedRepository"
    /\ LET r == RemoveAll(iframes, iframeLRU, listed, {})
           activeRemoved == activeWorktreePath \in listed
       IN /\ iframes' = r.iframes
          /\ iframeLRU' = r.iframeLRU
          /\ destroyed' = r.destroyed
          /\ activeWorktreePath' = IF activeRemoved THEN NoPath ELSE activeWorktreePath
          /\ hostFolder' = IF activeRemoved THEN NoFolder ELSE hostFolder
          /\ emptyState' = IF activeRemoved THEN ShowEmptyState(r.iframes, emptyState)
                           ELSE emptyState
          /\ backendCalled' = (listed # {})
          /\ recency' = StillLive(recency, DOMAIN r.iframes)
    /\ created' = {}
    /\ UNCHANGED <<mode, pendingArchive, views, activeViews>>
    /\ UNCHANGED <<relayVars, gitVars, svcVars>>

\* A reload of the shell page: the document and its iframes are gone, pending
\* continuations die with it, and the constructor runs again on the URL that
\* history.replaceState left: empty state, activeWorktreePath from ?folder=.
Reload ==
    /\ mode = "web"
    /\ lastOp' = "reload"
    /\ iframes' = <<>>
    /\ iframeLRU' = <<>>
    /\ emptyState' = TRUE
    /\ activeWorktreePath' = ConstructorActivePath(hostFolder)
    /\ pendingArchive' = {}
    /\ created' = {}
    /\ destroyed' = DOMAIN iframes
    /\ backendCalled' = FALSE
    /\ recency' = <<>>
    /\ trackedRepos' = <<>>
    /\ lastBrowsePath' = ""
    /\ load' = [state |-> "requested", value |-> load.value]
    /\ UNCHANGED <<mode, hostFolder, views, activeViews>>
    /\ UNCHANGED <<relayVars, gitVars, listVars, termVars, stepVars, settingsFile, pendingSaves, history>>

\* ------------------------------ ShellViewManager (shellViewManager.ts), desktop

\* this.activeViews.get(windowId)
ActiveOf(act, w) == IF w \in DOMAIN act THEN act[w] ELSE NoPath

\* Mutant: the views of the window are not hidden before the target is shown.
HideNoWindowViews(vws, w) == vws

\* for (const [key, managed] of this.views) if (key.startsWith(`${windowId}:`))
\*     { setVisible(false); send('vscode:shellActiveView', false) }
HideWindowViews(vws, w) ==
    [k \in DOMAIN vws |->
        IF k[1] = w THEN [visible |-> FALSE, activeView |-> "false"] ELSE vws[k]]

\* managed.view.setVisible(true); send('vscode:shellActiveView', true), on the
\* existing view of the key or on the one _createView returns.
ShowView(vws, key) ==
    [k \in DOMAIN vws \cup {key} |->
        IF k = key THEN [visible |-> TRUE, activeView |-> "true"] ELSE vws[k]]

\* ShellViewManager.activateWorktree(windowId, folderPath)
DesktopActivateWorktree(vws, act, w, p) ==
    IF w \notin windows
    THEN [views |-> vws, activeViews |-> act, created |-> {}, destroyed |-> {}]
    ELSE LET hid == HideWindowViews(vws, w) IN
         [views       |-> ShowView(hid, <<w, p>>),
          activeViews |-> [act EXCEPT ![w] = p],
          created     |-> IF <<w, p>> \in DOMAIN vws THEN {} ELSE {<<w, p>>},
          destroyed   |-> {}]

\* ShellViewManager.removeView(windowId, folderPath)
DesktopRemoveView(vws, act, w, p) ==
    IF <<w, p>> \notin DOMAIN vws
    THEN [views |-> vws, activeViews |-> act, destroyed |-> {}]
    ELSE [views       |-> Restrict(vws, DOMAIN vws \ {<<w, p>>}),
          activeViews |-> IF ActiveOf(act, w) = p THEN [act EXCEPT ![w] = NoPath] ELSE act,
          destroyed   |-> {<<w, p>>}]

\* ShellViewManager.setActiveViewVisible(windowId, visible)
DesktopSetActiveViewVisible(vws, act, w, visible) ==
    LET activePath == ActiveOf(act, w) IN
    IF activePath = NoPath \/ <<w, activePath>> \notin DOMAIN vws THEN vws
    ELSE [vws EXCEPT ![<<w, activePath>>].visible = visible]

\* ipc 'vscode:shellView-activateWorktree'
ActivateWorktree(w, p) ==
    /\ mode = "electron"
    /\ lastOp' = "activateWorktree"
    /\ (w \in WindowIds /\ <<w, p>> \notin DOMAIN views)
          => Cardinality(DOMAIN views) < MaxViews
    /\ LET r == DesktopActivateWorktree(views, activeViews, w, p) IN
       /\ views' = r.views
       /\ activeViews' = r.activeViews
       /\ created' = r.created
       /\ destroyed' = r.destroyed
    /\ UNCHANGED <<mode, webVars>>
    /\ UNCHANGED <<relayVars, gitVars, svcVars>>

\* ipc 'vscode:shellView-removeView'
RemoveView(w, p) ==
    /\ mode = "electron"
    /\ lastOp' = "removeView"
    /\ LET r == DesktopRemoveView(views, activeViews, w, p) IN
       /\ views' = r.views
       /\ activeViews' = r.activeViews
       /\ destroyed' = r.destroyed
    /\ created' = {}
    /\ UNCHANGED <<mode, webVars>>
    /\ UNCHANGED <<relayVars, gitVars, svcVars>>

\* ipc 'vscode:shellView-setActiveViewVisible'
SetActiveViewVisible(w, visible) ==
    /\ mode = "electron"
    /\ lastOp' = "setActiveViewVisible"
    /\ views' = DesktopSetActiveViewVisible(views, activeViews, w, visible)
    /\ created' = {}
    /\ destroyed' = {}
    /\ UNCHANGED <<mode, webVars, activeViews>>
    /\ UNCHANGED <<relayVars, gitVars, svcVars>>

\* A BrowserWindow is closed. The manager does not listen for it: the views of
\* the window stay in the map, and _getWindow no longer finds the window.
CloseWindow(w) ==
    /\ mode = "electron"
    /\ lastOp' = "closeWindow"
    /\ w \in windows
    /\ windows' = windows \ {w}
    /\ created' = {}
    /\ destroyed' = {}
    /\ UNCHANGED <<mode, webVars, desktopVars, delivered, gitVars, svcVars>>

\* Mutant: the notification goes to the shell of every window.
NotifyEveryWindow(vws, wins, sender) == wins

\* for (const [key, managed] of this.views) if (managed.view.webContents === sender)
\*     { windowId = parseInt(key.split(':')[0]); parentWindow?.webContents.send(..); break }
\* The webContents of the view kept under a key is named by that key; a sender
\* that names no key of the map is the webContents of a view removed earlier.
NotifyTargets(vws, wins, sender) ==
    {k[1] : k \in {m \in DOMAIN vws : m = sender}} \cap wins

\* ipc 'vscode:shellView-notifyShell', sent by ShellNotificationService._send
NotifyShell(sender) ==
    /\ mode = "electron"
    /\ lastOp' = "notifyShell"
    /\ delivered' = {<<w, sender>> : w \in NotifyTargets(views, windows, sender)}
    /\ created' = {}
    /\ destroyed' = {}
    /\ UNCHANGED <<mode, webVars, desktopVars, windows, gitVars, svcVars>>

\* The views of window w that are shown.
VisibleViews(w) == {k \in DOMAIN views : k[1] = w /\ views[k].visible}

\* ------------------------------------ GitWorktreeService (part_003): the disk

\* A path is the tuple of its segments: /r1/.git is <<"r1", ".git">>.

\* paths.posix.join: the segments in a row, each ".." taking back the segment
\* before it. An absolute fragment is appended like any other.
RECURSIVE Normalize(_)
Normalize(path) ==
    LET ups == {i \in 2..Len(path) : path[i] = ".." /\ path[i - 1] # ".."} IN
    IF ups = {} THEN path
    ELSE LET i == CHOOSE j \in ups : \A k \in ups : j <= k IN
         Normalize(SubSeq(path, 1, i - 2) \o SubSeq(path, i + 1, Len(path)))

\* URI.joinPath(uri, ...fragment)
JoinPath(base, fragment) == Normalize(base \o fragment)

IsPrefix(a, b) == Len(a) <= Len(b) /\ SubSeq(b, 1, Len(a)) = a

Prefixes(path) == {SubSeq(path, 1, n) : n \in 1..Len(path)}

\* fileService.stat(uri).isDirectory
IsDirectory(d, path) == path \in d.dirs

\* fileService.readFile(uri) succeeds
IsFile(d, path) == path \in DOMAIN d.files

\* fileService.createFolder(uri): the folder and its missing parents
CreateFolder(d, path) == [d EXCEPT !.dirs = @ \cup Prefixes(path)]

\* fileService.writeFile(uri, content): creates the missing parents too
WriteFile(d, path, content) ==
    [dirs  |-> d.dirs \cup Prefixes(SubSeq(path, 1, Len(path) - 1)),
     files |-> [q \in DOMAIN d.files \cup {path} |->
                   IF q = path THEN content ELSE d.files[q]]]

\* fileService.del(uri, { recursive: true }); deleting what is not there throws
\* and every caller ignores that.
Del(d, path) ==
    [dirs  |-> {q \in d.dirs : ~IsPrefix(path, q)},
     files |-> Restrict(d.files, {q \in DOMAIN d.files : ~IsPrefix(path, q)})]

\* Mutant: the isDirectory test of the loop is inverted, every entry is skipped.
SkipsDirectories(d, dir) == {}

\* fileService.resolve(dir).children that are directories (the callers skip the
\* others); none when the directory is missing (resolve throws, caught).
ChildDirectories(d, dir) ==
    {q \in d.dirs : Len(q) = Len(dir) + 1 /\ IsPrefix(dir, q)}

\* File contents. `.git` of a linked worktree: "gitdir: <text>"; HEAD:
\* "ref: refs/heads/<branch>"; gitdir of an administrative entry: "<path>/.git".
GitdirLine(text) == [kind |-> "gitdir:", text |-> text]

HeadRef(branch) == [kind |-> "ref:", text |-> <<branch>>]

\* <git dir>/refs/heads/<branch>: the file that is the branch.
BranchFile(gitDir, branch) == gitDir \o <<"refs", "heads", branch>>

GitdirBack(path) == [kind |-> "path", text |-> path]

\* gitdirContent.replace(/\/\.git\s*$/, '')
StripDotGit(text) ==
    IF Len(text) > 0 /\ text[Len(text)] = ".git"
    THEN SubSeq(text, 1, Len(text) - 1) ELSE text

\* The repository roots a user can add: /r1 is a main checkout (.git is a
\* directory); /r2 is a linked worktree of the main checkout /m2, which has a
\* second linked worktree /w2 and a stale entry x that has lost its gitdir file.
GitRoots == {<<"r1">>, <<"r2">>}

\* How git wrote the gitdir line of /r2/.git and /w2/.git: the absolute path
\* (the default) or a path relative to the worktree (worktree.useRelativePaths).
GitdirForms == {"absolute", "relative"}

AdminEntry(name) == <<"m2", ".git", "worktrees", name>>

LinkedGitdirText(form, name) ==
    IF form = "absolute" THEN AdminEntry(name) ELSE <<"..">> \o AdminEntry(name)

InitialDisk(form) ==
    [dirs  |-> {<<"r1">>, <<"r1", ".git">>,
                <<"m2">>, <<"m2", ".git">>, <<"m2", ".git", "worktrees">>,
                AdminEntry("r2"), AdminEntry("w2"), AdminEntry("x"), <<"r2">>, <<"w2">>}
               \cup Prefixes(<<"r1", ".git", "refs", "heads">>)
               \cup Prefixes(<<"m2", ".git", "refs", "heads">>),
     files |-> (<<"r1", ".git", "HEAD">> :> HeadRef("main"))
            @@ (<<"m2", ".git", "HEAD">> :> HeadRef("main"))
            @@ [f \in {BranchFile(<<"r1", ".git">>, "main")}
                       \cup {BranchFile(<<"m2", ".git">>, b) : b \in {"main", "two", "three"}}
                   |-> [kind |-> "sha", text |-> <<>>]]
            @@ (AdminEntry("r2") \o <<"HEAD">> :> HeadRef("two"))
            @@ (AdminEntry("r2") \o <<"gitdir">> :> GitdirBack(<<"r2", ".git">>))
            @@ (AdminEntry("w2") \o <<"HEAD">> :> HeadRef("three"))
            @@ (AdminEntry("w2") \o <<"gitdir">> :> GitdirBack(<<"w2", ".git">>))
            @@ (AdminEntry("x") \o <<"HEAD">> :> HeadRef("four"))
            @@ (<<"r2", ".git">> :> GitdirLine(LinkedGitdirText(form, "r2")))
            @@ (<<"w2", ".git">> :> GitdirLine(LinkedGitdirText(form, "w2")))]

\* GitWorktreeService._resolveGitDir(gitUri)
ResolveGitDir(d, gitUri) ==
    IF IsDirectory(d, gitUri) THEN gitUri
    ELSE IF IsFile(d, gitUri) /\ d.files[gitUri].kind = "gitdir:"
         THEN JoinPath(JoinPath(gitUri, <<"..">>), d.files[gitUri].text)
         ELSE gitUri

\* resolvedPath.indexOf('/worktrees/'): the first "worktrees" segment that
\* another segment follows (0: none).
WorktreesIdx(path) ==
    LET found == {i \in 1..(Len(path) - 1) : path[i] = "worktrees"} IN
    IF found = {} THEN 0 ELSE CHOOSE i \in found : \A k \in found : i <= k

\* Mutant: the first entry that cannot be read ends the loop over the entries.
StopsAtUnreadableEntry(d, dir) ==
    IF \A c \in ChildDirectories(d, dir) :
          IsFile(d, c \o <<"HEAD">>) /\ IsFile(d, c \o <<"gitdir">>)
    THEN ChildDirectories(d, dir) ELSE {}

\* The entries of <git dir>/worktrees the loop of _scanRepository makes a record
\* of: try { readFile(HEAD); readFile(gitdir); ...push } catch { /* skip */ }
ReadableEntries(d, dir) ==
    {c \in ChildDirectories(d, dir) :
        IsFile(d, c \o <<"HEAD">>) /\ IsFile(d, c \o <<"gitdir">>)}

\* The result of a scan that returns undefined or throws.
NoRepository == [ok |-> FALSE, rootUri |-> <<>>, worktrees |-> {}]

\* GitWorktreeService._scanRepository(repoUri); the linked worktrees are kept
\* as a set (the order of the directory listing).
ScanRepository(d, repoUri) ==
    LET gitUri   == repoUri \o <<".git">>
        resolved == ResolveGitDir(d, gitUri)
        idx      == WorktreesIdx(resolved)
        commonGitDir == IF IsDirectory(d, gitUri) THEN gitUri
                        ELSE IF idx # 0 THEN SubSeq(resolved, 1, idx - 1)
                        ELSE resolved
        head     == commonGitDir \o <<"HEAD">>
        readable == ReadableEntries(d, commonGitDir \o <<"worktrees">>)
    IN IF ~IsDirectory(d, gitUri) /\ ~IsFile(d, gitUri) THEN NoRepository
       ELSE IF ~IsFile(d, head) THEN NoRepository
       ELSE [ok |-> TRUE,
             rootUri |-> repoUri,
             worktrees |->
                {[path |-> JoinPath(commonGitDir, <<"..">>),
                  branch |-> d.files[head].text[1], isMain |-> TRUE]}
                \cup {[path |-> StripDotGit(d.files[c \o <<"gitdir">>].text),
                       branch |-> d.files[c \o <<"HEAD">>].text[1],
                       isMain |-> FALSE] : c \in readable}]

\* const worktreePath = `/Users/feng/Shiplight/${repoName}/branch_${safeBranchName}`
WorktreePathFor(repoUri, branch) == <<"Shiplight", repoUri[Len(repoUri)], branch>>

\* The file operations of createWorktree before its refresh: createFolder of the
\* worktree, createFolder of the administrative entry, writeFile of the .git
\* file, of HEAD and of gitdir.
CreateWorktreeSteps == 5

\* Mutant: gitdir and HEAD of the entry are written before the .git file of the
\* worktree.
EntryFilesFirst(d, repoUri, branch, done) ==
    LET worktreeUri  == WorktreePathFor(repoUri, branch)
        d1           == CreateFolder(d, worktreeUri)
        worktreesDir == ResolveGitDir(d1, repoUri \o <<".git">>) \o <<"worktrees", branch>>
        d2 == CreateFolder(d1, worktreesDir)
        d3 == WriteFile(d2, worktreesDir \o <<"gitdir">>, GitdirBack(worktreeUri \o <<".git">>))
        d4 == WriteFile(d3, worktreesDir \o <<"HEAD">>, HeadRef(branch))
        d5 == WriteFile(d4, worktreeUri \o <<".git">>, GitdirLine(worktreesDir))
    IN <<d, d1, d2, d3, d4, d5>>[done + 1]

\* The disk after the first `done` file operations of createWorktree. They are
\* idempotent, so applied to a disk that has the first n - 1 this is the n-th.
CreateWorktreePrefix(d, repoUri, branch, done) ==
    LET worktreeUri  == WorktreePathFor(repoUri, branch)
        d1           == CreateFolder(d, worktreeUri)
        mainGitPath  == ResolveGitDir(d1, repoUri \o <<".git">>)
        worktreesDir == mainGitPath \o <<"worktrees", branch>>
        d2 == CreateFolder(d1, worktreesDir)
        d3 == WriteFile(d2, worktreeUri \o <<".git">>, GitdirLine(worktreesDir))
        d4 == WriteFile(d3, worktreesDir \o <<"HEAD">>, HeadRef(branch))
        d5 == WriteFile(d4, worktreesDir \o <<"gitdir">>,
                        GitdirBack(worktreeUri \o <<".git">>))
    IN <<d, d1, d2, d3, d4, d5>>[done + 1]

\* The files createWorktree writes before it refreshes.
CreateWorktreeFiles(d, repoUri, branch) ==
    CreateWorktreePrefix(d, repoUri, branch, CreateWorktreeSteps)

\* Mutant: the branch the entry of the worktree has checked out is deleted with it.
DeletesBranchToo(d, rootUri, worktreeUri, entryDel, dirDel) ==
    LET entries == {c \in d.dirs :
                       /\ IsFile(d, c \o <<"gitdir">>) /\ IsFile(d, c \o <<"HEAD">>)
                       /\ StripDotGit(d.files[c \o <<"gitdir">>].text) = worktreeUri}
        gone == {f \in DOMAIN d.files :
                    \E c \in entries : f = BranchFile(SubSeq(c, 1, Len(c) - 2),
                                                      d.files[c \o <<"HEAD">>].text[1])}
    IN [dirs  |-> {q \in d.dirs : ~IsPrefix(worktreeUri, q)},
        files |-> Restrict(d.files, {q \in DOMAIN d.files :
                                        ~IsPrefix(worktreeUri, q) /\ q \notin gone})]

\* The deletions of removeWorktree before it refreshes: the first entry of
\* <git dir>/worktrees whose gitdir names the worktree, then the working
\* directory. A del that throws is caught and the call goes on (entryDel,
\* dirDel: the del of the entry, of the directory, does not throw).
RemoveWorktreeDeletions(d, rootUri, worktreeUri, entryDel, dirDel) ==
    LET commonGitDir == ResolveGitDir(d, rootUri \o <<".git">>)
        entries == {c \in ChildDirectories(d, commonGitDir \o <<"worktrees">>) :
                       /\ IsFile(d, c \o <<"gitdir">>)
                       /\ StripDotGit(d.files[c \o <<"gitdir">>].text) = worktreeUri}
        d1 == IF entries = {} \/ ~entryDel THEN d
              ELSE Del(d, CHOOSE c \in entries : TRUE)
    IN IF dirDel THEN Del(d1, worktreeUri) ELSE d1

RemoveWorktreeFiles(d, rootUri, worktreeUri) ==
    RemoveWorktreeDeletions(d, rootUri, worktreeUri, TRUE, TRUE)

\* listBranches: the local branches `git branch` prints for a git directory.
ListBranches(d, gitDir) ==
    {f[Len(f)] : f \in {q \in DOMAIN d.files :
                           Len(q) = Len(gitDir) + 3 /\ IsPrefix(gitDir \o <<"refs", "heads">>, q)}}

\* -------------------------------- GitWorktreeService (part_003): the service

\* Branch names asked for in createWorktree.
Branches == {"a"}

Slots == 1..MaxRefreshes

\* A refresh() activation that has not returned: the array its for-of loop
\* walks (`shared`: it is still the array this._trackedRepoUris refers to, so a
\* push of addRepository reaches the loop), the index of the next element, the
\* local `repos`, and the call that awaits it.
IdleRefresh ==
    [kind |-> "idle", list |-> <<>>, shared |-> FALSE, idx |-> 0, repos |-> <<>>,
     repoUri |-> <<>>, target |-> <<>>]

NewRefresh(tracked, kind, repoUri, target) ==
    [kind |-> kind, list |-> tracked, shared |-> TRUE, idx |-> 1, repos |-> <<>>,
     repoUri |-> repoUri, target |-> target]

IdleSlots(rs) == {s \in Slots : rs[s].kind = "idle"}

\* The activation takes the first free slot.
Allocate(rs, r) ==
    LET s == CHOOSE t \in IdleSlots(rs) : \A u \in IdleSlots(rs) : t <= u IN
    [rs EXCEPT ![s] = r]

NoOutcome == [kind |-> "none", result |-> "none", repoUri |-> <<>>, target |-> <<>>]

\* What the call that awaited the refresh does with the new result map:
\* createWorktree looks its worktree up and throws without it.
OutcomeOf(kind, repos, repoUri, target) ==
    [kind    |-> kind,
     result  |-> IF kind # "create" THEN "resolved"
                 ELSE IF \E i \in 1..Len(repos) :
                            /\ repos[i].rootUri = repoUri
                            /\ \E w \in repos[i].worktrees : w.path = target
                      THEN "resolved" ELSE "rejected",
     repoUri |-> repoUri, target |-> target]

\* Mutant: addRepository pushes without looking.
AppendAlways(tracked, uri) == Append(tracked, uri)

\* if (this._trackedRepoUris.some(u => u.toString() === uri.toString())) ... else push
TrackRepository(tracked, uri) ==
    IF uri \in SeqToSet(tracked) THEN tracked ELSE Append(tracked, uri)

\* Mutant: removeRepository keeps the entry of the result map.
KeepRepositories(repos, uri) == repos

\* this._repositories.filter(r => r.rootUri.toString() !== uriStr)
WithoutRepository(repos, uri) == SelectSeq(repos, LAMBDA r : r.rootUri # uri)

\* this._trackedRepoUris.filter(u => u.toString() !== uriStr)
Untrack(tracked, uri) == SelectSeq(tracked, LAMBDA u : u # uri)

\* try { const repo = await this._scanRepository(repoUri); if (repo) repos.push(repo) } catch {}
PushScanned(repos, scanned) == IF scanned.ok THEN Append(repos, scanned) ELSE repos

\* Mutant: the notification goes out before the assignment.
FireBeforeAssign(old, repos) == old

\* this._repositories = repos; this._onDidChange.fire(): what a listener reads.
FireAfterAssign(old, repos) == repos

\* refresh() is entered (by a caller of kind `kind`): without tracked
\* repositories it runs to its end at once, otherwise it waits for its first scan.
EnterRefresh(kind, repoUri, target) ==
    IF trackedRepoUris = <<>>
    THEN /\ repositories' = <<>>
         /\ fired' = 1
         /\ observed' = FireAfterAssign(repositories, <<>>)
         /\ outcome' = OutcomeOf(kind, <<>>, repoUri, target)
         /\ UNCHANGED refreshes
    ELSE /\ IdleSlots(refreshes) # {}
         /\ refreshes' = Allocate(refreshes,
                                  NewRefresh(trackedRepoUris, kind, repoUri, target))
         /\ fired' = 0
         /\ outcome' = NoOutcome
         /\ UNCHANGED <<repositories, observed>>

\* GitWorktreeService.refresh(), called by the refresh command
RefreshStart ==
    /\ lastOp' = "service.refresh"
    /\ EnterRefresh("refresh", <<>>, <<>>)
    /\ UNCHANGED <<trackedRepoUris, storage, disk>>
    /\ UNCHANGED <<viewVars, svcVars>>

\* One turn of the loop of refresh(): the scan of the next repository.
RefreshScan(s) ==
    /\ lastOp' = "service.refreshScan"
    /\ refreshes[s].kind # "idle"
    /\ refreshes[s].idx <= Len(refreshes[s].list)
    /\ LET r == refreshes[s]
           scanned == ScanRepository(disk, r.list[r.idx])
       IN refreshes' = [refreshes EXCEPT ![s].idx = r.idx + 1,
                                         ![s].repos = PushScanned(r.repos, scanned)]
    /\ fired' = 0
    /\ outcome' = NoOutcome
    /\ UNCHANGED <<trackedRepoUris, storage, repositories, disk, observed>>
    /\ UNCHANGED <<viewVars, svcVars>>

\* The loop of refresh() is over: the result map is replaced, the change event
\* fires, and the call that awaited the refresh goes on.
RefreshFinish(s) ==
    /\ lastOp' = "service.refreshFinish"
    /\ refreshes[s].kind # "idle"
    /\ refreshes[s].idx > Len(refreshes[s].list)
    /\ LET r == refreshes[s] IN
       /\ repositories' = r.repos
       /\ observed' = FireAfterAssign(repositories, r.repos)
       /\ outcome' = OutcomeOf(r.kind, r.repos, r.repoUri, r.target)
    /\ fired' = 1
    /\ refreshes' = [refreshes EXCEPT ![s] = IdleRefresh]
    /\ UNCHANGED <<trackedRepoUris, storage, disk>>
    /\ UNCHANGED <<viewVars, svcVars>>

\* GitWorktreeService.addRepository(uri) up to its `await this.refresh()`
AddRepository(uri) ==
    /\ lastOp' = "service.addRepository"
    /\ IdleSlots(refreshes) # {}
    /\ LET tracked == TrackRepository(trackedRepoUris, uri)
           pushed  == tracked # trackedRepoUris
           seen    == [s \in Slots |->
                         IF pushed /\ refreshes[s].shared
                         THEN [refreshes[s] EXCEPT !.list = Append(@, uri)]
                         ELSE refreshes[s]]
       IN /\ trackedRepoUris' = tracked
          /\ storage' = IF pushed THEN tracked ELSE storage
          /\ refreshes' = Allocate(seen, NewRefresh(tracked, "add", uri, <<>>))
    /\ fired' = 0
    /\ outcome' = NoOutcome
    /\ UNCHANGED <<repositories, disk, observed>>
    /\ UNCHANGED <<viewVars, svcVars>>

\* GitWorktreeService.removeRepository(uri)
ServiceRemoveRepository(uri) ==
    /\ lastOp' = "service.removeRepository"
    /\ trackedRepoUris' = Untrack(trackedRepoUris, uri)
    /\ storage' = trackedRepoUris'
    /\ repositories' = WithoutRepository(repositories, uri)
    /\ fired' = 1
    /\ observed' = repositories'
    /\ refreshes' = [s \in Slots |-> [refreshes[s] EXCEPT !.shared = FALSE]]
    /\ outcome' = [kind |-> "removeRepository",
                   result |-> IF uri \in SeqToSet(trackedRepoUris)
                              THEN "untracked" ELSE "absent",
                   repoUri |-> uri, target |-> <<>>]
    /\ UNCHANGED disk
    /\ UNCHANGED <<viewVars, svcVars>>

\* A createWorktree or removeWorktree call is between its writes and its return.
MutationInFlight == \E s \in Slots : refreshes[s].kind \in {"create", "remove"}

\* GitWorktreeService.createWorktree(repoUri, branchName) up to its
\* `await this.refresh()`; the commands offer the roots of `repositories`.
CreateWorktree(repoUri, branch) ==
    /\ lastOp' = "service.createWorktree"
    /\ \E i \in 1..Len(repositories) : repositories[i].rootUri = repoUri
    /\ ~MutationInFlight
    /\ disk' = CreateWorktreeFiles(disk, repoUri, branch)
    /\ EnterRefresh("create", repoUri, WorktreePathFor(repoUri, branch))
    /\ UNCHANGED <<trackedRepoUris, storage>>
    /\ UNCHANGED <<viewVars, svcVars>>

\* createWorktree one await at a time: each step is one file operation
\* completing; after the last one the call goes on to `await this.refresh()`.
\* Other calls of the service run between the steps.
CreateWorktreeStep(repoUri, branch) ==
    /\ lastOp' = "service.createWorktreeStep"
    /\ IF creating.done = 0
       THEN /\ \E i \in 1..Len(repositories) : repositories[i].rootUri = repoUri
            /\ ~MutationInFlight
       ELSE creating.repoUri = repoUri /\ creating.branch = branch
    /\ IF creating.done < CreateWorktreeSteps
       THEN /\ disk' = CreateWorktreePrefix(disk, repoUri, branch, creating.done + 1)
            /\ creating' = [done |-> creating.done + 1, repoUri |-> repoUri,
                            branch |-> branch]
            /\ fired' = 0
            /\ outcome' = NoOutcome
            /\ UNCHANGED <<repositories, refreshes, observed>>
       ELSE /\ disk' = disk
            /\ creating' = [done |-> 0, repoUri |-> <<>>, branch |-> ""]
            /\ EnterRefresh("create", repoUri, WorktreePathFor(repoUri, branch))
    /\ UNCHANGED <<trackedRepoUris, storage>>
    /\ UNCHANGED <<viewVars, listVars, settingsVars, termVars, paste, ackPending, pane>>

\* The records of the result map.
KnownWorktrees == UNION {repositories[i].worktrees : i \in 1..Len(repositories)}

\* templateData.archiveButton.style.display = worktree.isMain ? 'none' : '';
\* if (!worktree.isMain) { ...'click' -> 'gitWorktrees.removeWorktree' }
ArchiveButtonShown(w) == ~w.isMain

\* GitWorktreeService.removeWorktree(worktreeUri) up to its `await
\* this.refresh()`, as the archive button of a worktree item issues it (the
\* item is a record of the result map, so the repository is found).
RemoveWorktree(worktreeUri) ==
    /\ lastOp' = "service.removeWorktree"
    /\ ~MutationInFlight
    /\ LET holders == {i \in 1..Len(repositories) :
                          \E w \in repositories[i].worktrees : w.path = worktreeUri}
           first   == CHOOSE i \in holders : \A k \in holders : i <= k
           repo    == repositories[first]
       IN /\ holders # {}
          /\ disk' = RemoveWorktreeFiles(disk, repo.rootUri, worktreeUri)
          /\ EnterRefresh("remove", repo.rootUri, worktreeUri)
    /\ UNCHANGED <<trackedRepoUris, storage>>
    /\ UNCHANGED <<viewVars, svcVars>>

\* createWorktree when its file operation number `failing` throws: the
\* operations before it are done, the promise rejects, refresh() is not reached.
CreateWorktreeFails(repoUri, branch, failing) ==
    /\ lastOp' = "service.createWorktreeFailed"
    /\ \E i \in 1..Len(repositories) : repositories[i].rootUri = repoUri
    /\ ~MutationInFlight
    /\ disk' = CreateWorktreePrefix(disk, repoUri, branch, failing - 1)
    /\ outcome' = [kind |-> "create", result |-> "rejected",
                   repoUri |-> repoUri, target |-> WorktreePathFor(repoUri, branch)]
    /\ fired' = 0
    /\ UNCHANGED <<trackedRepoUris, storage, repositories, refreshes, observed>>
    /\ UNCHANGED <<viewVars, svcVars>>

\* removeWorktree when a del throws: the catch blocks swallow it and the call
\* goes on to refresh() and resolves.
RemoveWorktreeDelFails(worktreeUri, entryDel, dirDel) ==
    /\ lastOp' = "service.removeWorktreeFailed"
    /\ ~MutationInFlight
    /\ ~(entryDel /\ dirDel)
    /\ LET holders == {i \in 1..Len(repositories) :
                          \E w \in repositories[i].worktrees : w.path = worktreeUri}
           first   == CHOOSE i \in holders : \A k \in holders : i <= k
           repo    == repositories[first]
       IN /\ holders # {}
          /\ disk' = RemoveWorktreeDeletions(disk, repo.rootUri, worktreeUri,
                                             entryDel, dirDel)
          /\ EnterRefresh("remove", repo.rootUri, worktreeUri)
    /\ UNCHANGED <<trackedRepoUris, storage>>
    /\ UNCHANGED <<viewVars, svcVars>>

\* A URI that is no worktree of the result map (the command passes any URI on).
UnknownWorktree == <<"elsewhere">>

\* removeWorktree of a URI no repository of the result map lists:
\* throw new Error('Worktree not found in any tracked repository')
RemoveWorktreeNotFound(worktreeUri) ==
    /\ lastOp' = "service.removeWorktreeNotFound"
    /\ \A w \in KnownWorktrees : w.path # worktreeUri
    /\ outcome' = [kind |-> "remove", result |-> "rejected",
                   repoUri |-> <<>>, target |-> worktreeUri]
    /\ fired' = 0
    /\ UNCHANGED <<trackedRepoUris, storage, repositories, disk, refreshes, observed>>
    /\ UNCHANGED <<viewVars, svcVars>>

\* ------------------------------------ ShellWorktreeService (part_007): git

\* How the git subprocess of _execGit ends: with its output, with an error
\* (non-zero exit, spawn failure) or killed at the timeout.
ExecGitOutcomes == {"stdout", "error", "timeout"}

ShellWorktreeCalls == {"addWorktree", "removeWorktree", "cloneRepo"}

\* try { await this._execGit(...); return { success: true, ... } }
\* catch (err) { return { success: false, error: String(err) } }
StructuredResult(gitOutcome) == IF gitOutcome = "stdout" THEN "success" ELSE "failure"

\* ShellWorktreeService.addWorktree / removeWorktree / cloneRepo
ShellWorktreeCall(call, gitOutcome) ==
    /\ lastOp' = "shell.worktreeCall"
    /\ outcome' = [kind |-> call, result |-> StructuredResult(gitOutcome),
                   repoUri |-> <<>>, target |-> <<>>]
    /\ fired' = 0
    /\ UNCHANGED <<trackedRepoUris, storage, repositories, disk, refreshes, observed>>
    /\ UNCHANGED <<viewVars, svcVars>>

\* ---------------------------- ShellWorktreeService (part_007): getWorktrees

\* The repository URIs a getWorktrees request is made of.
RepoUriStrings == {"file:///a", "file:///gone"}

\* A line of `git worktree list --porcelain` is <<prefix, rest>>:
\* <<"worktree ", path>>, <<"HEAD ", sha>>, <<"branch ", ref>>, <<"bare">>, <<"detached">>.
\* What git prints, as the blocks between blank lines: a main checkout with a
\* linked worktree; a bare repository followed by a block that has no worktree
\* line.
GitListings ==
    { << <<<<"worktree ", "/a">>, <<"HEAD ", "h1">>, <<"branch ", "refs/heads/main">>>>,
         <<<<"worktree ", "/a-x">>, <<"HEAD ", "h2">>, <<"detached">>>> >>,
      << <<<<"worktree ", "/b">>, <<"bare">>>>,
         <<<<"HEAD ", "h3">>, <<"branch ", "refs/heads/y">>>> >> }

\* How the git subprocess of one repository ends: execFile calls back with an
\* error (not a repository, missing directory, timeout) or with stdout.
GitRuns == {[ok |-> FALSE, stdout |-> <<>>]}
           \cup {[ok |-> TRUE, stdout |-> l] : l \in GitListings}

\* The loop over the lines of a block: each recognised line assigns its field.
RECURSIVE ParseBlock(_, _)
ParseBlock(lines, info) ==
    IF lines = <<>> THEN info
    ELSE LET line == Head(lines)
             next == IF line[1] = "worktree " THEN [info EXCEPT !.path = line[2]]
                     ELSE IF line[1] = "HEAD " THEN [info EXCEPT !.head = line[2]]
                     ELSE IF line[1] = "branch " THEN [info EXCEPT !.branch = line[2]]
                     ELSE IF line = <<"bare">> THEN [info EXCEPT !.isBare = TRUE]
                     ELSE info
         IN ParseBlock(Tail(lines), next)

\* The loop over the blocks: let wtPath = ''; let head = ''; let branch = '';
\* let isBare = false; ...; if (wtPath) worktrees.push({ path, head, branch, isBare })
RECURSIVE ParseWorktreeList(_)
ParseWorktreeList(blocks) ==
    IF blocks = <<>> THEN <<>>
    ELSE LET info == ParseBlock(Head(blocks), [path |-> "", head |-> "", branch |-> "",
                                               isBare |-> FALSE]) IN
         (IF info.path # "" THEN <<info>> ELSE <<>>) \o ParseWorktreeList(Tail(blocks))

\* A result without the optional `error` member.
NoError == "undefined"

\* The body of the loop of getWorktrees for one repository:
\* try { ...; results.push({ repoUri, worktrees }) }
\* catch (err) { results.push({ repoUri, worktrees: [], error: String(err) }) }
ListingResult(repoUri, run) ==
    IF run.ok
    THEN [repoUri |-> repoUri, worktrees |-> ParseWorktreeList(run.stdout),
          error |-> NoError]
    ELSE [repoUri |-> repoUri, worktrees |-> <<>>, error |-> "Error: git failed"]

\* Mutant: the first failing repository ends the loop.
RECURSIVE StopAtFirstFailure(_, _)
StopAtFirstFailure(repoUris, runs) ==
    IF repoUris = <<>> \/ ~Head(runs).ok THEN <<>>
    ELSE <<ListingResult(Head(repoUris), Head(runs))>>
         \o StopAtFirstFailure(Tail(repoUris), Tail(runs))

\* for (const repoUri of repoUris) { ... } return results;
RECURSIVE GetWorktreesLoop(_, _)
GetWorktreesLoop(repoUris, runs) ==
    IF repoUris = <<>> THEN <<>>
    ELSE <<ListingResult(Head(repoUris), Head(runs))>>
         \o GetWorktreesLoop(Tail(repoUris), Tail(runs))

\* ShellWorktreeService.getWorktrees(repoUris) (the /api/worktrees handler of
\* the web server runs the same loop); runs[i] is how git ends for repoUris[i].
GetWorktrees(repoUris, runs) ==
    /\ lastOp' = "shell.getWorktrees"
    /\ request' = repoUris
    /\ gitRuns' = runs
    /\ results' = GetWorktreesLoop(repoUris, runs)
    /\ outcome' = [kind |-> "getWorktrees", result |-> "resolved",
                   repoUri |-> <<>>, target |-> <<>>]
    /\ UNCHANGED <<trackedRepoUris, storage, repositories, disk, refreshes, fired,
                   observed>>
    /\ UNCHANGED <<viewVars, settingsVars, termVars, stepVars>>

\* ------------------------- settings (part_007 loadSettings/saveSettings, shell.ts)

\* return { trackedRepositories: [], lastBrowsePath: '' };
DefaultSettings == [trackedRepositories |-> <<>>, lastBrowsePath |-> ""]

\* Mutant: the lastBrowsePath member is written empty.
StringifyWithoutBrowsePath(settings) ==
    <<"{", "trackedRepositories:", "[">> \o settings.trackedRepositories
        \o <<"]", "lastBrowsePath:", "", "}">>

\* JSON.stringify(settings, null, '\t'), as its tokens
StringifySettings(settings) ==
    <<"{", "trackedRepositories:", "[">> \o settings.trackedRepositories
        \o <<"]", "lastBrowsePath:", settings.lastBrowsePath, "}">>

\* loadSettings(): try { return JSON.parse(await fs.readFile(...)) } catch { defaults }.
\* readFile throws without the file, JSON.parse on a text that is no document.
LoadSettings(file) ==
    LET t == file.text
        n == Len(t)
    IN IF /\ file.exists
          /\ n >= 7
          /\ SubSeq(t, 1, 3) = <<"{", "trackedRepositories:", "[">>
          /\ <<t[n - 3], t[n - 2], t[n]>> = <<"]", "lastBrowsePath:", "}">>
       THEN [trackedRepositories |-> SubSeq(t, 4, n - 4), lastBrowsePath |-> t[n - 1]]
       ELSE DefaultSettings

\* Mutant: saveSettings lets the error of a failed write out.
RethrowsWriteError(ok) == IF ok THEN "resolved" ELSE "rejected"

\* saveSettings(): try { mkdir; writeFile } catch (err) { this.logService.error(...) }
SaveSettingsEnds(ok) == "resolved"

\* The settings the shell hands to backend.saveSettings.
ShellSettings(tracked, path) == [trackedRepositories |-> tracked, lastBrowsePath |-> path]

\* ShellApplication._saveSettings(): backend.saveSettings(...) is called and not
\* awaited; the call is in flight.
SaveSettingsCall(tracked, path) ==
    /\ \/ ShellSettings(tracked, path) \in pendingSaves
       \/ Cardinality(pendingSaves) < MaxPendingSaves
    /\ pendingSaves' = pendingSaves \cup {ShellSettings(tracked, path)}

\* ShellWorktreeService.loadSettings(), for the call of _loadInitialSettings
LoadSettingsRead ==
    /\ lastOp' = "shellService.loadSettings"
    /\ load.state = "requested"
    /\ load' = [state |-> "read", value |-> LoadSettings(settingsFile)]
    /\ outcome' = [kind |-> "loadSettings", result |-> "resolved",
                   repoUri |-> <<>>, target |-> <<>>]
    /\ UNCHANGED <<settingsFile, trackedRepos, lastBrowsePath, pendingSaves, history>>
    /\ UNCHANGED <<trackedRepoUris, storage, repositories, disk, refreshes, fired,
                   observed>>
    /\ UNCHANGED <<viewVars, listVars, termVars, stepVars>>

\* ShellWorktreeService.saveSettings(settings) of a call in flight; the write
\* goes through (ok) or mkdir / writeFile throws.
SaveSettingsWrite(settings, ok) ==
    /\ lastOp' = "shellService.saveSettings"
    /\ settings \in pendingSaves
    /\ pendingSaves' = pendingSaves \ {settings}
    /\ settingsFile' = IF ok THEN [exists |-> TRUE, text |-> StringifySettings(settings)]
                       ELSE settingsFile
    /\ history' = IF ok THEN [history EXCEPT !.written = settings]
                  ELSE [history EXCEPT !.saveFailed = TRUE]
    /\ outcome' = [kind |-> "saveSettings", result |-> SaveSettingsEnds(ok),
                   repoUri |-> <<>>, target |-> <<>>]
    /\ UNCHANGED <<trackedRepos, lastBrowsePath, load>>
    /\ UNCHANGED <<trackedRepoUris, storage, repositories, disk, refreshes, fired,
                   observed>>
    /\ UNCHANGED <<viewVars, listVars, termVars, stepVars>>

\* ShellApplication._loadInitialSettings() after its await:
\* this.trackedRepos = settings.trackedRepositories ?? []; this.lastBrowsePath = ...
LoadInitialSettingsDone ==
    /\ lastOp' = "shell.loadInitialSettings"
    /\ load.state = "read"
    /\ trackedRepos' = load.value.trackedRepositories
    /\ lastBrowsePath' = load.value.lastBrowsePath
    /\ load' = [load EXCEPT !.state = "done"]
    /\ UNCHANGED <<settingsFile, pendingSaves, history>>
    /\ UNCHANGED <<gitVars, viewVars, listVars, termVars, stepVars>>

\* ShellApplication._browseAndAddRepo() once a folder is selected (and the end
\* of _cloneRepo): push unless included, then _saveSettings().
BrowseAndAddRepo(repoUri) ==
    /\ lastOp' = "shell.browseAndAddRepo"
    /\ IF repoUri \in SeqToSet(trackedRepos)
       THEN UNCHANGED <<trackedRepos, pendingSaves>>
       ELSE /\ trackedRepos' = Append(trackedRepos, repoUri)
            /\ SaveSettingsCall(trackedRepos', lastBrowsePath)
    /\ UNCHANGED <<settingsFile, lastBrowsePath, load, history>>
    /\ UNCHANGED <<gitVars, viewVars, listVars, termVars, stepVars>>

\* ShellApplication._removeRepository(repoUri), for a repository none of whose
\* worktrees has a view: filter, then _saveSettings().
ShellRemoveRepository(repoUri) ==
    /\ lastOp' = "shell.removeRepository"
    /\ trackedRepos' = SelectSeq(trackedRepos, LAMBDA r : r # repoUri)
    /\ SaveSettingsCall(trackedRepos', lastBrowsePath)
    /\ UNCHANGED <<settingsFile, lastBrowsePath, load, history>>
    /\ UNCHANGED <<gitVars, viewVars, listVars, termVars, stepVars>>

\* loadDirectory(path) of the folder picker after its listing arrived:
\* this.lastBrowsePath = currentPath; this._saveSettings();
LoadDirectory(path) ==
    /\ lastOp' = "shell.loadDirectory"
    /\ lastBrowsePath' = path
    /\ SaveSettingsCall(trackedRepos, path)
    /\ UNCHANGED <<settingsFile, trackedRepos, load, history>>
    /\ UNCHANGED <<gitVars, viewVars, listVars, termVars, stepVars>>

\* The shell window of the desktop embedding is reloaded: a new ShellApplication
\* with empty lists calls _loadInitialSettings(); the saves in flight go on in
\* the main process.
ReloadWindow ==
    /\ lastOp' = "shell.reloadWindow"
    /\ mode = "electron"
    /\ load.state = "done"
    /\ trackedRepos' = <<>>
    /\ lastBrowsePath' = ""
    /\ load' = [load EXCEPT !.state = "requested"]
    /\ UNCHANGED <<settingsFile, pendingSaves, history>>
    /\ UNCHANGED <<gitVars, viewVars, listVars, termVars, stepVars>>

\* -------------------------------------------------------- specification

\* _saveTrackedRepos(): JSON.stringify(this._trackedRepoUris.map(u => u.toString())),
\* as its tokens; the string of a file URI is "file://" and the path.
SaveTrackedRepos(tracked) ==
    <<"[">> \o [i \in 1..Len(tracked) |-> <<"file://">> \o tracked[i]] \o <<"]">>

\* _loadTrackedRepos(): try { JSON.parse(raw).map(u => URI.parse(u)) } catch { [] }
LoadTrackedRepos(raw) ==
    IF Len(raw) >= 2 /\ raw[1] = "[" /\ raw[Len(raw)] = "]"
    THEN [i \in 1..(Len(raw) - 2) |-> Tail(raw[i + 1])]
    ELSE <<>>

\* The worktree service after its constructor and the refresh the constructor
\* defers: the tracked list is the stored one; without tracked repositories the
\* refresh is over (one event), otherwise it waits for its first scan.
InitService(form, tracked) ==
    /\ trackedRepoUris = LoadTrackedRepos(SaveTrackedRepos(tracked))
    /\ storage = tracked
    /\ repositories = <<>>
    /\ disk = InitialDisk(form)
    /\ refreshes = IF tracked = <<>> THEN [s \in Slots |-> IdleRefresh]
                   ELSE Allocate([s \in Slots |-> IdleRefresh],
                                 NewRefresh(tracked, "refresh", <<>>, <<>>))
    /\ fired = IF tracked = <<>> THEN 1 ELSE 0
    /\ observed = <<>>
    /\ outcome = NoOutcome
    /\ creating = [done |-> 0, repoUri |-> <<>>, branch |-> ""]

\* The shell after construction. In the web shell the constructor shows the
\* empty state and takes activeWorktreePath from the folder parameter of the URL,
\* if there is one.
InitShell ==
    /\ mode \in {"web", "electron"}
    /\ iframes = <<>>
    /\ iframeLRU = <<>>
    /\ hostFolder \in (IF mode = "web" THEN {FolderUri(p) : p \in Paths} \cup {NoFolder}
                                       ELSE {NoFolder})
    /\ activeWorktreePath = ConstructorActivePath(hostFolder)
    /\ emptyState = (mode = "web")
    /\ pendingArchive = {}
    /\ views = <<>>
    /\ activeViews = [w \in WindowIds |-> NoPath]
    /\ windows = WindowIds
    /\ delivered = {}
    /\ created = {}
    /\ destroyed = {}
    /\ backendCalled = FALSE
    /\ recency = <<>>
    /\ lastOp = "constructor"

\* A settings file nothing has written.
NoSettingsFile == [exists |-> FALSE, text |-> <<>>]

\* The shell worktree service holds no state besides the settings file; no
\* getWorktrees call was made. The ShellApplication constructor leaves its lists
\* empty and calls _loadInitialSettings().
\* _renderRepoList: the items of a repository section that get the click
\* listener `() => this.switchToWorktree(wt.path)`; the loop adds it to every
\* item, after the bare tag and the archive button.
ClickableItems(worktrees) == 1..Len(worktrees)

\* A click on item k of the section of the i-th repository of the rendered
\* list (the result of the last getWorktrees): switchToWorktree(wt.path).
ClickWorktreeItem(i, k) ==
    /\ i \in 1..Len(results)
    /\ k \in ClickableItems(results[i].worktrees)
    /\ lastOp' = "shell.clickWorktreeItem"
    /\ outcome' = [kind |-> "switchToWorktree", result |-> "called",
                   repoUri |-> results[i].repoUri,
                   target |-> results[i].worktrees[k].path]
    /\ fired' = 0
    /\ UNCHANGED <<trackedRepoUris, storage, repositories, disk, refreshes, observed>>
    /\ UNCHANGED <<viewVars, svcVars>>

\* --------------------------------------- terminal input notification

\* The notify calls counted per background period; the count stays at this value
\* once it is reached.
MaxNotifies == 2

ActivatedKeepsTimer(t) ==
    [t EXCEPT !.isBackground = FALSE, !.hasNewOutput = FALSE, !.notified = FALSE,
              !.notificationActive = FALSE]

\* onActivated: foreground, flags reset, _clearSilenceTimer(), _clearNotification().
OnActivated(t) ==
    [t EXCEPT !.isBackground = FALSE, !.hasNewOutput = FALSE, !.notified = FALSE,
              !.silenceTimer = FALSE, !.notificationActive = FALSE]

\* onDeactivated: background, _hasNewOutput and _notified reset; the timer and the
\* notification are not touched.
OnDeactivated(t) ==
    [t EXCEPT !.isBackground = TRUE, !.hasNewOutput = FALSE, !.notified = FALSE]

\* The test of _resetSilenceTimer and _onSilenceDetected: true when they go on.
SilenceGuard(t) ==
    notifyEnabled /\ t.isBackground /\ t.hasNewOutput /\ ~t.notified

\* ShellViewManager.activateWorktree seen from the view of the contribution: the
\* loop sends 'vscode:shellActiveView' false to every view of the window, this
\* one included, and then true to the activated view (own: it is this one).
ActivateView(own) ==
    /\ notifier' = IF own THEN OnActivated(OnDeactivated(notifier))
                          ELSE OnDeactivated(notifier)
    /\ notifiesSent' = IF notifier.isBackground THEN notifiesSent ELSE 0
    /\ lastOp' = "terminal.shellActiveView"
    /\ UNCHANGED <<viewVars, gitVars, listVars, settingsVars, stepVars, notifyEnabled>>

\* The focus event of the window of the view that is shown: onActivated.
WindowFocus ==
    /\ ~notifier.isBackground
    /\ notifier' = OnActivated(notifier)
    /\ lastOp' = "terminal.focus"
    /\ UNCHANGED <<viewVars, gitVars, listVars, settingsVars, stepVars, notifyEnabled, notifiesSent>>

\* _onTerminalOutput (a line feed or a title change): nothing in the foreground;
\* in the background _hasNewOutput, _clearNotification(), _resetSilenceTimer().
TerminalOutput ==
    /\ notifier' = IF ~notifier.isBackground THEN notifier
                   ELSE [notifier EXCEPT
                           !.hasNewOutput = TRUE,
                           !.notificationActive = FALSE,
                           !.silenceTimer = SilenceGuard([notifier EXCEPT !.hasNewOutput = TRUE])]
    /\ lastOp' = "terminal.output"
    /\ UNCHANGED <<viewVars, gitVars, listVars, settingsVars, stepVars, notifyEnabled, notifiesSent>>

\* xterm onData (the user types): _clearSilenceTimer(), _clearNotification().
UserInput ==
    /\ notifier' = [notifier EXCEPT !.silenceTimer = FALSE, !.notificationActive = FALSE]
    /\ lastOp' = "terminal.input"
    /\ UNCHANGED <<viewVars, gitVars, listVars, settingsVars, stepVars, notifyEnabled, notifiesSent>>

\* The silence timer fires: _onSilenceDetected() returns on its test or sets
\* _notified and _notificationActive and calls notify().
SilenceTimeout ==
    /\ notifier.silenceTimer
    /\ IF SilenceGuard(notifier)
       THEN /\ notifier' = [notifier EXCEPT !.silenceTimer = FALSE, !.notified = TRUE,
                                            !.notificationActive = TRUE]
            /\ notifiesSent' = IF notifiesSent < MaxNotifies THEN notifiesSent + 1
                                                             ELSE MaxNotifies
            /\ lastOp' = "terminal.notify"
       ELSE /\ notifier' = [notifier EXCEPT !.silenceTimer = FALSE]
            /\ notifiesSent' = notifiesSent
            /\ lastOp' = "terminal.silence"
    /\ UNCHANGED <<viewVars, gitVars, listVars, settingsVars, stepVars, notifyEnabled>>

\* The user changes terminal.integrated.enableInputNotification; _isEnabled()
\* reads it whenever it is called.
ToggleSetting ==
    /\ notifyEnabled' = ~notifyEnabled
    /\ lastOp' = "terminal.setting"
    /\ UNCHANGED <<viewVars, gitVars, listVars, settingsVars, stepVars, notifier, notifiesSent>>

\* ----------- terminal input notification, bracketed paste mode variant

\* Mutant: every ON starts a new prompt cycle.
ResetOnEveryOn(wasEnabled, acknowledged) == FALSE

\* if (!wasEnabled) { this._acknowledged = false; }
AcknowledgedAfterOn(wasEnabled, acknowledged) == wasEnabled /\ acknowledged

\* _resetSilenceTimer() leaves a timer pending: enabled and not acknowledged.
TimerAfterReset(acknowledged) == notifyEnabled /\ ~acknowledged

\* _onBracketedPasteModeChanged(enabled): CSI ? 2004 h / l
OnBracketedPasteModeChanged(enabled) ==
    /\ paste' = IF enabled
                THEN LET ack == AcknowledgedAfterOn(paste.bracketedPasteMode,
                                                    paste.acknowledged) IN
                     [paste EXCEPT !.bracketedPasteMode = TRUE, !.acknowledged = ack,
                                   !.silenceTimer = TimerAfterReset(ack)]
                ELSE [paste EXCEPT !.bracketedPasteMode = FALSE, !.silenceTimer = FALSE,
                                   !.notificationActive = FALSE]
    /\ ackPending' = IF enabled /\ ~paste.bracketedPasteMode THEN FALSE ELSE ackPending
    /\ lastOp' = IF ~enabled THEN "paste.modeOff"
                 ELSE IF paste.bracketedPasteMode THEN "paste.modeOnRepeated"
                 ELSE "paste.modeOn"
    /\ UNCHANGED <<viewVars, gitVars, listVars, settingsVars, termVars, creating, pane>>

\* _onSubstantialOutput(): a line feed or a title change
OnSubstantialOutput ==
    /\ paste' = IF ~paste.bracketedPasteMode THEN paste
                ELSE [paste EXCEPT !.silenceTimer = TimerAfterReset(paste.acknowledged),
                                   !.notificationActive = FALSE]
    /\ lastOp' = "paste.output"
    /\ UNCHANGED <<viewVars, gitVars, listVars, settingsVars, termVars, creating, ackPending, pane>>

\* xterm onData: the user types.
OnData ==
    /\ paste' = [paste EXCEPT !.acknowledged = FALSE, !.silenceTimer = FALSE,
                              !.notificationActive = FALSE]
    /\ ackPending' = FALSE
    /\ lastOp' = "paste.input"
    /\ UNCHANGED <<viewVars, gitVars, listVars, settingsVars, termVars, creating, pane>>

\* The workbench becomes the active view: the focus event of the window
\* (focus: the document has the focus from then on) or a 'shell.activeView'
\* message with active true. onActivated acknowledges.
WorkbenchActivated(focus) ==
    /\ paste' = [paste EXCEPT !.acknowledged = TRUE, !.silenceTimer = FALSE,
                              !.notificationActive = FALSE,
                              !.hasFocus = focus \/ paste.hasFocus]
    /\ ackPending' = TRUE
    /\ lastOp' = "paste.activated"
    /\ UNCHANGED <<viewVars, gitVars, listVars, settingsVars, termVars, creating, pane>>

\* The window loses the focus, or a 'shell.activeView' message with active
\* false arrives: onDeactivated changes nothing.
WorkbenchDeactivated(blur) ==
    /\ paste' = [paste EXCEPT !.hasFocus = ~blur /\ paste.hasFocus]
    /\ lastOp' = "paste.deactivated"
    /\ UNCHANGED <<viewVars, gitVars, listVars, settingsVars, termVars, creating, ackPending, pane>>

\* The silence timer fires: _onSilenceDetected()
OnSilenceDetected ==
    /\ paste.silenceTimer
    /\ IF /\ paste.bracketedPasteMode /\ notifyEnabled
          /\ ~paste.hasFocus
          /\ ~(paste.acknowledged \/ paste.notificationActive)
       THEN /\ paste' = [paste EXCEPT !.silenceTimer = FALSE, !.notificationActive = TRUE]
            /\ lastOp' = "paste.notify"
       ELSE /\ paste' = [paste EXCEPT !.silenceTimer = FALSE]
            /\ lastOp' = "paste.silence"
    /\ UNCHANGED <<viewVars, gitVars, listVars, settingsVars, termVars, creating, ackPending, pane>>

InitShellService(file) ==
    /\ request = <<>>
    /\ gitRuns = <<>>
    /\ results = <<>>
    /\ settingsFile = file
    /\ trackedRepos = <<>>
    /\ lastBrowsePath = ""
    /\ load = [state |-> "requested", value |-> DefaultSettings]
    /\ pendingSaves = {}
    /\ history = [written |-> LoadSettings(file), saveFailed |-> FALSE]
    /\ notifier = [isBackground |-> FALSE, hasNewOutput |-> FALSE, notified |-> FALSE,
                   silenceTimer |-> FALSE, notificationActive |-> FALSE]
    /\ notifyEnabled = TRUE
    /\ notifiesSent = 0
    /\ paste = [bracketedPasteMode |-> FALSE, silenceTimer |-> FALSE,
                notificationActive |-> FALSE, acknowledged |-> FALSE, hasFocus |-> TRUE]
    /\ ackPending = FALSE
    /\ pane = [tabs |-> <<>>, activeTabId |-> NoTab, nextTabId |-> 0, pending |-> {},
               terminals |-> {}, dom |-> {}, shown |-> {}]

Init ==
    /\ InitShell
    /\ InitService("absolute", <<>>)
    /\ InitShellService(NoSettingsFile)

Next ==
    \/ \E p \in Paths : SwitchToWorktree(p)
    \/ \E p \in Archivable : ArchiveWorktreeStart(p)
    \/ \E p \in Archivable, success \in BOOLEAN : ArchiveWorktreeDone(p, success)
    \/ \E repo \in Repos : RemoveRepository(repo)
    \/ Reload
    \/ \E w \in WindowIds \cup UnknownWindowIds : \E p \in WindowPaths(w) : ActivateWorktree(w, p)
    \/ \E w \in WindowIds \cup UnknownWindowIds : \E p \in WindowPaths(w) : RemoveView(w, p)
    \/ \E w \in WindowIds \cup UnknownWindowIds, visible \in BOOLEAN :
          SetActiveViewVisible(w, visible)

Spec == Init /\ [][Next]_vars

\* The web shell whose repository sections show what the last refresh listed.
NextListed ==
    \/ \E p \in Paths : SwitchToWorktree(p)
    \/ \E repo \in Repos : \E listed \in ListedWorktrees(repo) :
          RemoveListedRepository(repo, listed)

SpecListed == Init /\ [][NextListed]_vars

\* The desktop manager with its notification relay and closing windows; every
\* window is asked to show the first two folders.
RelayPaths == {1, 2}

RelayKeys == WindowIds \X RelayPaths

InitRelay ==
    /\ Init
    /\ mode = "electron"

NextRelay ==
    \/ \E k \in RelayKeys : ActivateWorktree(k[1], k[2])
    \/ \E k \in RelayKeys : RemoveView(k[1], k[2])
    \/ \E w \in WindowIds : CloseWindow(w)
    \/ \E sender \in RelayKeys : NotifyShell(sender)

SpecRelay == InitRelay /\ [][NextRelay]_vars

\* The worktree service (GitWorktreeService): tracking and refreshing, with
\* calls that overlap. The one worktree operation is createWorktree on /r1.
InitialTracked == {<<>>} \cup {<<r>> : r \in GitRoots}

InitGit ==
    /\ InitShell
    /\ mode = "electron"
    /\ \E form \in GitdirForms, tracked \in InitialTracked : InitService(form, tracked)
    /\ InitShellService(NoSettingsFile)

NextGit ==
    \/ RefreshStart
    \/ \E s \in Slots : RefreshScan(s)
    \/ \E s \in Slots : RefreshFinish(s)
    \/ \E uri \in GitRoots : AddRepository(uri)
    \/ \E uri \in GitRoots : ServiceRemoveRepository(uri)
    \/ \E branch \in Branches : CreateWorktree(<<"r1">>, branch)

SpecGit == InitGit /\ [][NextGit]_vars

\* The worktree service on its disk: createWorktree and removeWorktree for every
\* repository and worktree item of the result map; an asynchronous call is made
\* when no refresh is in flight, removeRepository (synchronous) at any time.
NoRefresh == \A s \in Slots : refreshes[s].kind = "idle"

NextDisk ==
    \/ NoRefresh /\ RefreshStart
    \/ \E s \in Slots : RefreshScan(s)
    \/ \E s \in Slots : RefreshFinish(s)
    \/ NoRefresh /\ \E uri \in GitRoots : AddRepository(uri)
    \/ \E uri \in GitRoots : ServiceRemoveRepository(uri)
    \/ NoRefresh /\ \E repoUri \in GitRoots, branch \in Branches :
                        CreateWorktree(repoUri, branch)
    \/ NoRefresh /\ \E w \in {k \in KnownWorktrees : ArchiveButtonShown(k)} :
                        RemoveWorktree(w.path)

SpecDisk == InitGit /\ [][NextDisk]_vars

\* The worktree service when file operations can fail.
NextFault ==
    \/ NextDisk
    \/ NoRefresh /\ \E repoUri \in GitRoots, branch \in Branches,
                        failing \in 1..CreateWorktreeSteps :
                        CreateWorktreeFails(repoUri, branch, failing)
    \/ NoRefresh /\ \E w \in {k \in KnownWorktrees : ArchiveButtonShown(k)},
                        entryDel \in BOOLEAN, dirDel \in BOOLEAN :
                        RemoveWorktreeDelFails(w.path, entryDel, dirDel)
    \/ RemoveWorktreeNotFound(UnknownWorktree)

SpecFault == InitGit /\ [][NextFault]_vars

\* createWorktree written file by file while refreshes run.
NextCreate ==
    \/ RefreshStart
    \/ \E s \in Slots : RefreshScan(s)
    \/ \E s \in Slots : RefreshFinish(s)
    \/ \E uri \in GitRoots : AddRepository(uri)
    \/ \E repoUri \in GitRoots, branch \in Branches : CreateWorktreeStep(repoUri, branch)

SpecCreate == InitGit /\ [][NextCreate]_vars

\* The shell worktree service (ShellWorktreeService): requests of up to
\* MaxRequest repositories and the worktree calls, with every way git can end.
NextShellService ==
    \/ \E n \in 0..MaxRequest : \E repoUris \in [1..n -> RepoUriStrings],
                                     runs \in [1..n -> GitRuns] :
          GetWorktrees(repoUris, runs)
    \/ \E call \in ShellWorktreeCalls, gitOutcome \in ExecGitOutcomes :
          ShellWorktreeCall(call, gitOutcome)
    \/ \E i \in 1..MaxRequest, k \in 1..2 : ClickWorktreeItem(i, k)

SpecShellService == InitRelay /\ [][NextShellService]_vars

\* The settings of the shell: the ShellApplication of the desktop embedding, its
\* saves in flight and the settings file of ShellWorktreeService. The file the
\* shell finds: none, a truncated document, or settings of an earlier run.
SettingsFiles ==
    <<NoSettingsFile,
      [exists |-> TRUE, text |-> <<"{", "trackedRepositories:">>],
      [exists |-> TRUE,
       text |-> StringifySettings(ShellSettings(<<"file:///b", "file:///a">>, "/home"))]>>

\* The lists an earlier run of the worktree service stored.
StoredLists == << <<>>, << <<"r1">> >>, << <<"r2">>, <<"r1">> >> >>

InitSettings ==
    /\ InitShell
    /\ mode = "electron"
    /\ \E k \in 1..3 : InitService("absolute", StoredLists[k]) /\ InitShellService(SettingsFiles[k])

NextSettings ==
    \/ LoadSettingsRead
    \/ LoadInitialSettingsDone
    \/ \E settings \in pendingSaves, ok \in BOOLEAN : SaveSettingsWrite(settings, ok)
    \/ \E repoUri \in {"file:///a", "file:///b"} : BrowseAndAddRepo(repoUri)
    \/ \E repoUri \in {"file:///a", "file:///b"} : ShellRemoveRepository(repoUri)
    \/ LoadDirectory("/home")
    \/ ReloadWindow

SpecSettings == InitSettings /\ [][NextSettings]_vars

\* The terminal contribution of one workbench view of the desktop shell: the
\* shell activates this view or another one, the terminal prints, the user
\* types, the silence timer fires, the setting changes.
NextTerminal ==
    \/ \E own \in BOOLEAN : ActivateView(own)
    \/ WindowFocus
    \/ TerminalOutput
    \/ UserInput
    \/ SilenceTimeout
    \/ ToggleSetting

SpecTerminal == InitRelay /\ [][NextTerminal]_vars

\* A timer that is pending fires.
SpecTerminalFair == SpecTerminal /\ WF_vars(SilenceTimeout)

\* The bracketed-paste variant of the contribution in one workbench view.
NextPaste ==
    \/ \E enabled \in BOOLEAN : OnBracketedPasteModeChanged(enabled)
    \/ OnSubstantialOutput
    \/ OnData
    \/ \E focus \in BOOLEAN : WorkbenchActivated(focus)
    \/ \E blur \in BOOLEAN : WorkbenchDeactivated(blur)
    \/ OnSilenceDetected
    \/ ToggleSetting

SpecPaste == InitRelay /\ [][NextPaste]_vars

\* The agent pane (AgentTerminalViewPane): terminal tabs.

\* _addTerminalTab up to the first await: the id is taken and the tab element
\* and the content container are attached; the container is displayed.
AddTerminalTabStart ==
    /\ pane.nextTabId < MaxTabId
    /\ LET id == pane.nextTabId IN
       pane' = [pane EXCEPT !.nextTabId = id + 1,
                            !.pending = @ \cup {id},
                            !.dom = @ \cup {id},
                            !.shown = @ \cup {id}]
    /\ lastOp' = "pane.addTabStart"
    /\ UNCHANGED <<viewVars, gitVars, listVars, settingsVars, termVars, creating, paste,
                   ackPending>>

\* _addTerminalTab after the awaits: the terminal exists, the tab is pushed and
\* activated; when creation threw, the elements are removed and nothing is pushed.
AddTerminalTabDone(id, ok) ==
    /\ id \in pane.pending
    /\ pane' = IF ok
               THEN ActivateTabState([pane EXCEPT !.pending = @ \ {id},
                                                  !.terminals = @ \cup {id},
                                                  !.tabs = Append(@, id)], id)
               ELSE [pane EXCEPT !.pending = @ \ {id},
                                 !.dom = @ \ {id},
                                 !.shown = @ \ {id}]
    /\ lastOp' = IF ok THEN "pane.addTab" ELSE "pane.addTabFailed"
    /\ UNCHANGED <<viewVars, gitVars, listVars, settingsVars, termVars, creating, paste,
                   ackPending>>

\* Click on a tab element whose listeners are registered.
ClickTab(id) ==
    /\ id \in pane.dom \ pane.pending
    /\ pane' = ActivateTabState(pane, id)
    /\ lastOp' = "pane.activateTab"
    /\ UNCHANGED <<viewVars, gitVars, listVars, settingsVars, termVars, creating, paste,
                   ackPending>>

\* Click on the close button of a tab element: _closeTab(id). sync: the
\* terminal's dispose() fires onDisposed before it returns.
CloseTab(id, sync) ==
    /\ id \in pane.dom \ pane.pending
    /\ pane' = CloseTabState(pane, id, sync)
    /\ lastOp' = "pane.closeTab"
    /\ UNCHANGED <<viewVars, gitVars, listVars, settingsVars, termVars, creating, paste,
                   ackPending>>

\* The terminal of a tab is disposed by someone else: onDisposed runs
\* _removeTabFromList(id).
TerminalDisposed(id) ==
    /\ id \in pane.terminals
    /\ pane' = RemoveTabFromListState([pane EXCEPT !.terminals = @ \ {id}], id)
    /\ lastOp' = "pane.terminalDisposed"
    /\ UNCHANGED <<viewVars, gitVars, listVars, settingsVars, termVars, creating, paste,
                   ackPending>>

NextTabs ==
    \/ AddTerminalTabStart
    \/ \E id \in TabIds, ok \in BOOLEAN : AddTerminalTabDone(id, ok)
    \/ \E id \in TabIds : ClickTab(id)
    \/ \E id \in TabIds, sync \in BOOLEAN : CloseTab(id, sync)
    \/ \E id \in TabIds : TerminalDisposed(id)

SpecTabs == InitRelay /\ [][NextTabs]_vars

\* ------------------------------------------------------------- claims

Last(seq) == seq[Len(seq)]

ViewsOfWindow(w) == {k \in DOMAIN views : k[1] = w}

\* C1: in both backends at most one view per window is visible, and a visible
\* view is the view of the most recently activated path of its window.
C1_OneVisibleMostRecent ==
    /\ Cardinality(VisibleIframes) <= 1
    /\ \A p \in VisibleIframes :
          /\ p = activeWorktreePath
          /\ recency # <<>>
          /\ p = Last(recency)
    /\ \A w \in WindowIds :
          /\ Cardinality(VisibleViews(w)) <= 1
          /\ \A k \in VisibleViews(w) : k[2] = activeViews[w]

\* Both windows show one view and keep a hidden one beside it.
C1_Witness ==
    /\ mode = "electron"
    /\ \A w \in WindowIds :
          Cardinality(VisibleViews(w)) = 1 /\ Cardinality(ViewsOfWindow(w)) >= 2

\* C2: in the web backend the number of live iframes never exceeds MAX_IFRAMES.
C2_AtMostMaxIframes == Cardinality(DOMAIN iframes) <= MAX_IFRAMES

\* A switch at capacity: an iframe was evicted to make room for the new one.
C2_Witness ==
    /\ lastOp = "switchToWorktree"
    /\ Cardinality(DOMAIN iframes) = MAX_IFRAMES
    /\ created # {}
    /\ destroyed # {}

\* A step of ShellApplication.switchToWorktree(p) that went on to the backend.
SwitchedTo(p) ==
    /\ lastOp' = "switchToWorktree"
    /\ backendCalled'
    /\ activeWorktreePath' = p
    /\ SwitchToWorktree(p)

\* A step of ShellViewManager.activateWorktree(w, p) in an existing window.
ActivatedIn(w, p) ==
    /\ lastOp' = "activateWorktree"
    /\ activeViews'[w] = p
    /\ ActivateWorktree(w, p)

\* C3: when switchToWorktree creates a view for a new path at capacity, it
\* destroys exactly the live view whose latest activation is the oldest, and
\* never the view that was visible when the call was made.
C3_EvictsLeastRecentlyActivated ==
    [][(lastOp' = "switchToWorktree" /\ backendCalled') =>
       \A p \in {activeWorktreePath'} \cap Paths :
          (/\ SwitchedTo(p)
           /\ p \notin DOMAIN iframes
           /\ Cardinality(DOMAIN iframes) = MAX_IFRAMES)
          => /\ destroyed' = {Head(recency)}
             /\ DOMAIN iframes' = (DOMAIN iframes \ {Head(recency)}) \cup {p}
             /\ VisibleIframes \cap destroyed' = {}
             /\ created' = {p}]_vars

\* The least recently activated view was evicted while another one was shown.
C3_Witness ==
    /\ lastOp = "switchToWorktree"
    /\ Len(iframeLRU) = MAX_IFRAMES
    /\ Cardinality(destroyed) = 1
    /\ created = {activeWorktreePath}
    /\ destroyed \cap DOMAIN iframes = {}

\* C4: activating a path that has a live hidden view reuses that view: nothing
\* is created, nothing is destroyed, the view becomes the visible one and (web)
\* the path moves to the most recently used end of the eviction order.
C4_ReusesHiddenView ==
    [][/\ (lastOp' = "switchToWorktree" /\ backendCalled') =>
          \A p \in {activeWorktreePath'} \cap Paths :
            (/\ SwitchedTo(p)
             /\ p \in DOMAIN iframes
             /\ iframes[p].hidden)
            => /\ created' = {}
               /\ destroyed' = {}
               /\ DOMAIN iframes' = DOMAIN iframes
               /\ VisibleIframes' = {p}
               /\ Last(iframeLRU') = p
               /\ SeqToSet(iframeLRU') = SeqToSet(iframeLRU)
               /\ Len(iframeLRU') = Len(iframeLRU)
       /\ lastOp' = "activateWorktree" =>
          \A w \in WindowIds : \A p \in {activeViews'[w]} \cap Paths :
            (/\ ActivatedIn(w, p)
             /\ <<w, p>> \in DOMAIN views
             /\ ~views[<<w, p>>].visible)
            => /\ created' = {}
               /\ destroyed' = {}
               /\ DOMAIN views' = DOMAIN views
               /\ VisibleViews(w)' = {<<w, p>>}]_vars

\* A hidden iframe was shown again while other iframes are live.
C4_Witness ==
    /\ lastOp = "switchToWorktree"
    /\ backendCalled
    /\ created = {}
    /\ Cardinality(DOMAIN iframes) >= 3
    /\ VisibleIframes = {activeWorktreePath}

\* C5: switching from the visible path A to another path B below capacity hides
\* the view of A without destroying it: it stays in the view map, is not
\* created anew, and (web) stays in the eviction order.
C5_HideKeepsView ==
    [][/\ (lastOp' = "switchToWorktree" /\ backendCalled') =>
          \A b \in {activeWorktreePath'} \cap Paths : \A a \in VisibleIframes \ {b} :
            (/\ SwitchedTo(b)
             /\ (b \in DOMAIN iframes \/ Cardinality(DOMAIN iframes) < MAX_IFRAMES))
            => /\ a \in DOMAIN iframes'
               /\ iframes'[a].hidden
               /\ a \notin destroyed'
               /\ a \notin created'
               /\ a \in SeqToSet(iframeLRU')
       /\ lastOp' = "activateWorktree" =>
          \A w \in WindowIds : \A b \in {activeViews'[w]} \cap Paths :
          \A k \in VisibleViews(w) \ {<<w, b>>} :
            ActivatedIn(w, b)
            => /\ k \in DOMAIN views'
               /\ ~views'[k].visible
               /\ k \notin destroyed'
               /\ k \notin created']_vars

\* The shown view was hidden by a switch that created another one.
C5_Witness ==
    /\ lastOp = "switchToWorktree"
    /\ created = {activeWorktreePath}
    /\ destroyed = {}
    /\ \E a \in DOMAIN iframes : iframes[a].hidden

\* C6: switchToWorktree(p) while p is the active path is a no-op: the views,
\* the eviction order, the visible view and the host URL are unchanged and the
\* backend is not called.
C6_SwitchToActiveIsNoOp ==
    [][lastOp' = "switchToWorktree" =>
       \A p \in {activeWorktreePath} \cap Paths :
          SwitchToWorktree(p)
          => /\ UNCHANGED <<iframes, iframeLRU, hostFolder, activeWorktreePath,
                            emptyState, recency>>
             /\ ~backendCalled'
             /\ created' = {}
             /\ destroyed' = {}]_vars

\* The shown worktree was asked for again.
C6_Witness ==
    /\ lastOp = "switchToWorktree"
    /\ ~backendCalled
    /\ VisibleIframes = {activeWorktreePath}
    /\ Cardinality(DOMAIN iframes) >= 2

\* C7: removing the view of the visible path destroys it and clears the visible
\* tracking (no view visible, active path empty), and an activation of a path
\* that has no view and is not the active path creates a fresh view for it.
C7_RemovingVisibleClearsTracking ==
    [][/\ lastOp' \in {"archiveWorktreeDone", "removeRepository"} =>
          \A p \in VisibleIframes :
            (\/ ArchiveWorktreeDone(p, TRUE)
             \/ \E repo \in Repos : p \in WorktreesOf(repo) /\ RemoveRepository(repo))
            => /\ p \notin DOMAIN iframes'
               /\ p \in destroyed'
               /\ p \notin SeqToSet(iframeLRU')
               /\ VisibleIframes' = {}
               /\ activeWorktreePath' = NoPath
       /\ lastOp' = "switchToWorktree" =>
          \A p \in Paths \ (DOMAIN iframes \cup {activeWorktreePath}) :
            SwitchToWorktree(p)
            => /\ created' = {p}
               /\ VisibleIframes' = {p}
               /\ backendCalled'
       /\ lastOp' = "removeView" =>
          \A w \in WindowIds : \A k \in VisibleViews(w) :
            RemoveView(w, k[2])
            => /\ k \notin DOMAIN views'
               /\ k \in destroyed'
               /\ VisibleViews(w)' = {}
               /\ activeViews'[w] = NoPath
       /\ lastOp' = "activateWorktree" =>
          \A w \in WindowIds : \A p \in {activeViews'[w]} \cap Paths :
            (ActivatedIn(w, p) /\ <<w, p>> \notin DOMAIN views)
            => /\ created' = {<<w, p>>}
               /\ VisibleViews(w)' = {<<w, p>>}]_vars

\* The shown worktree was archived while hidden iframes of others stay live.
C7_Witness ==
    /\ lastOp = "archiveWorktreeDone"
    /\ destroyed # {}
    /\ activeWorktreePath = NoPath
    /\ VisibleIframes = {}
    /\ DOMAIN iframes # {}

\* C8: after _archiveWorktree got a successful removeWorktree result for a
\* worktree, no live view of that worktree path remains, whether its view was
\* visible or hidden.
C8_NoViewAfterArchive ==
    [][\A p \in Archivable :
          (lastOp' = "archiveWorktreeDone" /\ ArchiveWorktreeDone(p, TRUE))
          => p \notin DOMAIN iframes']_vars

\* C9: in the desktop embedding a window never holds more than MAX_VIEWS (5,
\* the capacity of the web backend) live views.
C9_DesktopAtMostMaxViews ==
    \A w \in WindowIds : Cardinality(ViewsOfWindow(w)) <= MAX_IFRAMES

BoolStr(b) == IF b THEN "true" ELSE "false"

\* C10: in both backends the last activeView value every live view received
\* equals whether it is the visible view.
C10_ActiveViewMatchesVisible ==
    /\ \A p \in DOMAIN iframes : iframes[p].activeView = BoolStr(~iframes[p].hidden)
    /\ \A k \in DOMAIN views : views[k].activeView = BoolStr(views[k].visible)

\* C11: the folder parameter of the host URL identifies the active worktree, so
\* that after a reload the iframe of the worktree the URL names is the visible
\* view.
C11_ReloadRestoresVisibleView ==
    (lastOp = "reload" /\ hostFolder # NoFolder)
        => /\ FolderUri(activeWorktreePath) = hostFolder
           /\ VisibleIframes = {activeWorktreePath}

\* C12: a notification sent by a live managed view of window W is forwarded to
\* the shell of W and to no other window; one whose sender is not a live
\* managed view, or whose window is gone, is dropped; in both cases the views,
\* the active views and the windows are left as they were.
C12_NotificationReachesOwnWindowOnly ==
    [][lastOp' = "notifyShell" =>
       \A sender \in RelayKeys :
          NotifyShell(sender)
          => /\ delivered' = IF sender \in DOMAIN views /\ sender[1] \in windows
                             THEN {<<sender[1], sender>>}
                             ELSE {}
             /\ UNCHANGED <<views, activeViews, windows>>]_vars

\* A view of the second window notified while the first window is open and
\* shows a view of the same folder.
C12_Witness ==
    /\ lastOp = "notifyShell"
    /\ delivered = {<<2, <<2, 1>>>>}
    /\ windows = WindowIds
    /\ <<1, 1>> \in DOMAIN views

\* C13: the tracked list never holds a URI twice, and addRepository of a URI
\* that is tracked leaves the tracked list, the stored list and the result map
\* as they are and only enters refresh().
C13_AddRepositoryIdempotent ==
    [][/\ Cardinality(SeqToSet(trackedRepoUris')) = Len(trackedRepoUris')
       /\ lastOp' = "service.addRepository" =>
          \A uri \in SeqToSet(trackedRepoUris) :
             AddRepository(uri)
             => /\ UNCHANGED <<trackedRepoUris, storage, repositories>>
                /\ fired' = 0
                /\ \E s \in Slots : /\ refreshes[s].kind = "idle"
                                    /\ refreshes'[s].kind = "add"
                                    /\ refreshes'[s].list = trackedRepoUris]_vars

\* The first of two tracked repositories was added again (a push goes to the
\* end of the list, so the URI was tracked before the call).
C13_Witness ==
    /\ lastOp = "service.addRepository"
    /\ Len(trackedRepoUris) = 2
    /\ storage = trackedRepoUris
    /\ \E s \in Slots : /\ refreshes[s].kind = "add"
                        /\ refreshes[s].idx = 1
                        /\ refreshes[s].repoUri = trackedRepoUris[1]

\* C14: when removeRepository(uri) returns, neither the tracked list nor the
\* result map has an entry for uri, the tracked list is stored, one change event
\* has fired and no refresh was entered.
C14_RemoveRepositorySynchronous ==
    [][lastOp' = "service.removeRepository" =>
       \A uri \in GitRoots :
          ServiceRemoveRepository(uri)
          => /\ uri \notin SeqToSet(trackedRepoUris')
             /\ \A i \in 1..Len(repositories') : repositories'[i].rootUri # uri
             /\ storage' = trackedRepoUris'
             /\ fired' = 1
             /\ observed' = repositories'
             /\ \A s \in Slots : refreshes'[s].kind = refreshes[s].kind]_vars

\* A scanned repository was removed while another one stays in the result map.
C14_Witness ==
    /\ lastOp = "service.removeRepository"
    /\ outcome.result = "untracked"
    /\ fired = 1
    /\ Len(trackedRepoUris) = 1
    /\ Len(repositories) = 1
    /\ repositories[1].rootUri = trackedRepoUris[1]

\* C15: when refresh() ends, the result map holds exactly the tracked
\* repositories whose scan succeeds, in tracked order.
C15_ResultMapIsTrackedScanned ==
    lastOp = "service.refreshFinish"
        => [i \in 1..Len(repositories) |-> repositories[i].rootUri]
              = SelectSeq(trackedRepoUris, LAMBDA u : ScanRepository(disk, u).ok)

\* C16: the scans of a refresh() leave the result map alone and fire nothing;
\* its end replaces the map by the loop's result and fires one change event whose
\* listeners read the new map; a refresh() without tracked repositories does
\* both at once.
C16_RefreshReplacesOnceFiresOnce ==
    [][/\ lastOp' = "service.refreshScan"
          => (fired' = 0 /\ UNCHANGED <<repositories, observed>>)
       /\ lastOp' = "service.refreshFinish"
          => /\ fired' = 1
             /\ observed' = repositories'
             /\ \E s \in Slots : /\ refreshes[s].kind # "idle"
                                 /\ refreshes'[s].kind = "idle"
                                 /\ repositories' = refreshes[s].repos
       /\ lastOp' = "service.refresh"
          => IF trackedRepoUris = <<>>
             THEN fired' = 1 /\ repositories' = <<>> /\ observed' = <<>>
             ELSE fired' = 0 /\ UNCHANGED <<repositories, observed>>]_vars

\* A refresh() over two tracked repositories ended with one failed scan.
C16_Witness ==
    /\ lastOp = "service.refreshFinish"
    /\ fired = 1
    /\ Len(trackedRepoUris) = 2
    /\ Len(repositories) = 1
    /\ observed = repositories

\* C17: once createWorktree and every refresh() that overlapped it have
\* returned, each record of the result map is what a scan of its repository
\* gives on the disk as it is.
C17_NoStaleResultMap ==
    NoRefresh =>
        \A i \in 1..Len(repositories) :
            repositories[i].rootUri \in SeqToSet(trackedRepoUris)
            => repositories[i] = ScanRepository(disk, repositories[i].rootUri)

\* C18: when createWorktree(repo, branch) on a tracked root returns, it has
\* resolved and a scan of repo lists the new worktree path with the branch asked for and isMain false.
C18_CreatedWorktreeIsScanned ==
    (/\ lastOp = "service.refreshFinish"
     /\ outcome.kind = "create"
     /\ outcome.repoUri \in SeqToSet(trackedRepoUris))
        => /\ outcome.result = "resolved"
           /\ \E w \in ScanRepository(disk, outcome.repoUri).worktrees :
                 /\ w.path = outcome.target
                 /\ w.branch = outcome.target[3]
                 /\ ~w.isMain

\* C19: when removeWorktree of a worktree item of a tracked root returns, the working directory
\* and the administrative entry that names it are gone and a scan of the
\* repository has no record for it.
C19_RemovedWorktreeIsGone ==
    (/\ lastOp = "service.refreshFinish"
     /\ outcome.kind = "remove"
     /\ outcome.repoUri \in SeqToSet(trackedRepoUris))
        => /\ ~IsDirectory(disk, outcome.target)
           /\ \A f \in DOMAIN disk.files :
                 disk.files[f].kind = "path"
                 => StripDotGit(disk.files[f].text) # outcome.target
           /\ \A w \in ScanRepository(disk, outcome.repoUri).worktrees :
                 w.path # outcome.target

\* C20: no sequence of operations deletes the root directory of a repository:
\* the roots that can be tracked and the main checkout stay directories.
C20_RepositoryRootsKept ==
    \A root \in GitRoots \cup {<<"m2">>} : IsDirectory(disk, root)

\* C21: a createWorktree or removeWorktree call that fails ends with a result
\* value, never with a rejected promise.
C21_FailureIsStructuredResult ==
    outcome.kind \in {"create", "remove"} => outcome.result # "rejected"

\* C22: a createWorktree or removeWorktree call in which a step fails leaves the
\* disk and the result map as they were and is followed by a refresh.
C22_FailedCallChangesNothing ==
    [][lastOp' \in {"service.createWorktreeFailed", "service.removeWorktreeFailed"}
       => /\ disk' = disk
          /\ \/ fired' = 1
             \/ \E s \in Slots : refreshes[s].kind = "idle" /\ refreshes'[s].kind # "idle"]_vars

\* C23: a successful scan of a repository returns one record for the main
\* checkout, the only one with isMain, and one record for each entry of the
\* worktrees directory of the repository's git directory whose HEAD and gitdir
\* files are there; the other entries are skipped.
C23_ScanListsMainAndLinked ==
    \A root \in GitRoots :
        LET scan     == ScanRepository(disk, root)
            gitDir   == IF root = <<"r1">> THEN <<"r1", ".git">> ELSE <<"m2", ".git">>
            readable == {c \in disk.dirs :
                            /\ Len(c) = 4
                            /\ SubSeq(c, 1, 3) = gitDir \o <<"worktrees">>
                            /\ c \o <<"HEAD">> \in DOMAIN disk.files
                            /\ c \o <<"gitdir">> \in DOMAIN disk.files}
        IN scan.ok => /\ Cardinality(scan.worktrees) = Cardinality(readable) + 1
                      /\ Cardinality({w \in scan.worktrees : w.isMain}) = 1
                      /\ \A w \in scan.worktrees :
                            w.isMain <=> w.path = SubSeq(gitDir, 1, 1)

\* The scan of /r2 lists the main checkout and two linked worktrees while the
\* scan of /r1 skips an entry that a failed createWorktree left without gitdir.
C23_Witness ==
    /\ Cardinality(ScanRepository(disk, <<"r2">>).worktrees) = 3
    /\ ScanRepository(disk, <<"r1">>).ok
    /\ Cardinality(ScanRepository(disk, <<"r1">>).worktrees) = 1
    /\ <<"r1", ".git", "worktrees", "a">> \in disk.dirs
    /\ <<"r1", ".git", "worktrees", "a", "gitdir">> \notin DOMAIN disk.files

C26_PersistenceFailureNotFatal ==
    [][/\ lastOp' = "shellService.saveSettings" =>
          \A settings \in pendingSaves :
             SaveSettingsWrite(settings, FALSE)
             => /\ outcome'.result = "resolved"
                /\ UNCHANGED <<trackedRepos, lastBrowsePath, settingsFile>>
       /\ (/\ lastOp' = "shellService.loadSettings"
           /\ settingsFile \in {SettingsFiles[1], SettingsFiles[2]})
          => /\ outcome'.result = "resolved"
             /\ load'.value = DefaultSettings]_vars

\* The save of an added repository failed: the shell still tracks it, the file
\* does not hold it.
C26_Witness ==
    /\ lastOp = "shellService.saveSettings"
    /\ history.saveFailed
    /\ pendingSaves = {}
    /\ trackedRepos = <<"file:///a">>
    /\ ~settingsFile.exists

\* C27: once the initial load and every save have completed, and no write
\* failed, the tracked list of the settings file is the tracked list of the shell.
C27_PersistedEqualsTracked ==
    (load.state = "done" /\ pendingSaves = {} /\ ~history.saveFailed)
        => LoadSettings(settingsFile).trackedRepositories = trackedRepos

\* C28: notify is only called in the background state, and a step that brings
\* the workbench to the foreground leaves no silence timer pending and no
\* notification active; in the foreground neither exists.
C28_ForegroundNeverNotifies ==
    [][/\ lastOp' = "terminal.notify" => notifier.isBackground /\ notifier'.isBackground
       /\ ~notifier'.isBackground => ~notifier'.silenceTimer /\ ~notifier'.notificationActive]_vars

\* The shell activates the view right after it notified: the notification is
\* cleared.
C28_Witness ==
    /\ lastOp = "terminal.shellActiveView"
    /\ ~notifier.isBackground
    /\ notifiesSent = 1
    /\ ~notifier.notificationActive

\* C29: at most one notify is sent between going to the background and the next
\* activation.
C29_OneNotifyPerBackgroundPeriod ==
    notifiesSent <= 1

\* C30: output of a background workbench with notifications enabled that has not
\* notified in this period leads to a notify, unless the user types, the
\* workbench comes to the foreground or the setting is switched off.
C30_SilenceLeadsToNotify ==
    (/\ lastOp = "terminal.output"
     /\ notifier.isBackground
     /\ notifyEnabled
     /\ notifiesSent = 0)
    ~> (\/ lastOp = "terminal.notify"
        \/ lastOp = "terminal.input"
        \/ ~notifier.isBackground
        \/ ~notifyEnabled)

\* The records a scan has produced: those of the result map and those the
\* refreshes in flight hold.
ScannedRecords ==
    KnownWorktrees
    \cup UNION {UNION {refreshes[s].repos[i].worktrees : i \in 1..Len(refreshes[s].repos)} :
                   s \in Slots}

\* C31: a scan result holds a record of a worktree that createWorktree makes
\* only when the .git file of the worktree and HEAD and gitdir of its entry are
\* written, and the record has the branch asked for.
C31_NoPartialWorktreeRecord ==
    \A repoUri \in GitRoots, branch \in Branches :
       \A w \in ScannedRecords :
          w.path = WorktreePathFor(repoUri, branch)
          => /\ disk = CreateWorktreeFiles(disk, repoUri, branch)
             /\ w.branch = branch
             /\ ~w.isMain

\* A refresh that runs while createWorktree has not reached its own refresh has
\* scanned /r1 and holds the record of the new worktree.
C31_Witness ==
    /\ creating.done = CreateWorktreeSteps
    /\ \E s \in Slots :
          /\ refreshes[s].kind = "refresh"
          /\ \E i \in 1..Len(refreshes[s].repos) :
                \E w \in refreshes[s].repos[i].worktrees :
                   w.path = WorktreePathFor(<<"r1">>, "a")

\* C32: a click on the rendered list never calls switchToWorktree with the path
\* of an entry that is marked bare.
C32_BareEntryNeverActivated ==
    lastOp = "shell.clickWorktreeItem"
        => \A i \in 1..Len(results) : \A k \in 1..Len(results[i].worktrees) :
              results[i].worktrees[k].path = outcome.target
                  => ~results[i].worktrees[k].isBare

\* C33: a removeWorktree call leaves the branches of every repository as they
\* were; it adds nothing to the disk, changes no file, and what it deletes lies
\* in the working directory of a listed linked worktree or in an entry under
\* worktrees/.
C33_RemoveWorktreeKeepsBranches ==
    [][lastOp' = "service.removeWorktree"
       => /\ \A gitDir \in {<<"r1", ".git">>, <<"m2", ".git">>} :
                ListBranches(disk', gitDir) = ListBranches(disk, gitDir)
          /\ disk'.dirs \subseteq disk.dirs
          /\ DOMAIN disk'.files \subseteq DOMAIN disk.files
          /\ \A f \in DOMAIN disk'.files : disk'.files[f] = disk.files[f]
          /\ \E w \in KnownWorktrees :
                \A q \in (disk.dirs \ disk'.dirs)
                         \cup (DOMAIN disk.files \ DOMAIN disk'.files) :
                   IsPrefix(w.path, q) \/ WorktreesIdx(q) # 0]_vars

\* The worktree /w2, which has branch three checked out, was removed: its
\* directory is gone and the branch is still there.
C33_Witness ==
    /\ lastOp = "service.removeWorktree"
    /\ ~IsDirectory(disk, <<"w2">>)
    /\ "three" \in ListBranches(disk, <<"m2", ".git">>)

\* C34: a scan of a repository whose git directory is found and whose main HEAD is readable pushes a repository
\* record whatever the entries under worktrees/ hold: it lists the main
\* worktree and every entry whose HEAD and gitdir are there, and no record is
\* made of an entry that lacks one of them.
C34_UnreadableEntrySkipped ==
    [][\A s \in Slots :
          RefreshScan(s) =>
             LET root    == refreshes[s].list[refreshes[s].idx]
                 gitDir  == IF root = <<"r1">> THEN <<"r1", ".git">> ELSE <<"m2", ".git">>
                 entries == {c \in disk.dirs : Len(c) = 4 /\ SubSeq(c, 1, 3) = gitDir \o <<"worktrees">>}
                 whole   == {c \in entries : {c \o <<"HEAD">>, c \o <<"gitdir">>} \subseteq DOMAIN disk.files}
                 repos   == refreshes'[s].repos
             IN (/\ (gitDir \o <<"HEAD">>) \in DOMAIN disk.files
                 /\ IsPrefix(gitDir, ResolveGitDir(disk, root \o <<".git">>)))
                => /\ Len(repos) = Len(refreshes[s].repos) + 1
                   /\ repos[Len(repos)].rootUri = root
                   /\ {w.path : w \in {v \in repos[Len(repos)].worktrees : ~v.isMain}}
                         = {StripDotGit(disk.files[c \o <<"gitdir">>].text) : c \in whole}
                   /\ \E w \in repos[Len(repos)].worktrees :
                         w.isMain /\ w.path = SubSeq(gitDir, 1, 1)]_vars

\* A refresh scanned /r2: next to the stale entry x the scan found the main
\* worktree /m2 and the linked worktrees /r2 and /w2.
C34_Witness ==
    /\ lastOp = "service.refreshScan"
    /\ IsDirectory(disk, AdminEntry("x"))
    /\ ~IsFile(disk, AdminEntry("x") \o <<"gitdir">>)
    /\ \E s \in Slots :
          /\ Len(refreshes[s].repos) = 1
          /\ refreshes[s].repos[1].rootUri = <<"r2">>
          /\ {w.path : w \in refreshes[s].repos[1].worktrees} = {<<"m2">>, <<"r2">>, <<"w2">>}

\* C35: a notify is sent only when the workbench was not activated since the
\* last user input or OFF-to-ON transition, and never while a notification is
\* active; an ON that arrives while the mode is on and the activation is not
\* followed by input leaves no timer pending.
C35_NoNotifyAfterAcknowledge ==
    [][/\ lastOp' = "paste.notify" => ~ackPending /\ ~paste.notificationActive
       /\ (lastOp' = "paste.modeOnRepeated" /\ ackPending)
             => ackPending' /\ ~paste'.silenceTimer]_vars

\* The workbench was activated at a prompt, lost the focus, and the terminal
\* sent ON again: nothing is pending although notifications are enabled.
C35_Witness ==
    /\ lastOp = "paste.modeOnRepeated"
    /\ ackPending
    /\ notifyEnabled
    /\ ~paste.hasFocus
    /\ ~paste.silenceTimer

\* C36: after _removeRepository(repo) no worktree of repo has a live view, and
\* if the active worktree was one of them the active path is cleared and the
\* empty state is shown.
C36_RemoveRepositoryDestroysViews ==
    [][\A repo \in Repos : \A listed \in ListedWorktrees(repo) :
          RemoveListedRepository(repo, listed)
          => /\ DOMAIN iframes' \cap WorktreesOf(repo) = {}
             /\ activeWorktreePath \in WorktreesOf(repo)
                   => activeWorktreePath' = NoPath /\ emptyState']_vars

\* C37: in the web shell, whenever activeWorktreePath is set, the iframe of
\* that path is live and is the one that is shown.
C37_ActivePathHasVisibleView ==
    (mode = "web" /\ activeWorktreePath # NoPath)
        => /\ activeWorktreePath \in DOMAIN iframes
           /\ VisibleIframes = {activeWorktreePath}

\* C38: when no refresh() is in flight, every repository of the result map is
\* a tracked repository.
C38_ResultMapHoldsTrackedOnly ==
    NoRefresh =>
        \A i \in 1..Len(repositories) :
            repositories[i].rootUri \in SeqToSet(trackedRepoUris)

\* C39: in the web backend iframeLRU holds exactly the keys of the iframes map,
\* each once, and it ends with the path of the iframe that is shown, if one is.
C39_EvictionOrderMatchesViews ==
    /\ SeqToSet(iframeLRU) = DOMAIN iframes
    /\ Len(iframeLRU) = Cardinality(DOMAIN iframes)
    /\ VisibleIframes # {} => VisibleIframes = {iframeLRU[Len(iframeLRU)]}

\* A repository was removed whose worktree had a hidden iframe: it left the map
\* and the order, two others are live and one of them is shown.
C39_Witness ==
    /\ lastOp = "removeRepository"
    /\ destroyed # {}
    /\ VisibleIframes # {}
    /\ Len(iframeLRU) >= 2

\* C40: _closeTab(id) of a listed tab removes exactly that tab: the other tabs
\* stay in the list in their order, no tab leaves the list with its terminal
\* alive, and if tabs remain the active tab is one of them and it alone is shown.
C40_CloseTabRemovesExactlyThatTab ==
    [][\A id \in TabIds, sync \in BOOLEAN :
          (CloseTab(id, sync) /\ id \in SeqToSet(pane.tabs))
          => /\ pane'.tabs = SelectSeq(pane.tabs, LAMBDA t : t # id)
             /\ \A t \in SeqToSet(pane.tabs) \ SeqToSet(pane'.tabs) :
                   t \notin pane'.terminals
             /\ pane'.tabs # <<>>
                => /\ pane'.activeTabId \in SeqToSet(pane'.tabs)
                   /\ pane'.shown \cap SeqToSet(pane'.tabs) = {pane'.activeTabId}]_vars

====
